---- MODULE Spec2Model ----
(***************************************************************************)
(* Model of the deposit / withdrawal core of ok777-backend.                *)
(*                                                                         *)
(* Three independent parts of the program are modelled, each with its own  *)
(* specification over the same variables:                                  *)
(*   SpecDeposit  - the deposit pipelines (depositListeners/*.ts and       *)
(*                  solana-deposits.ts / ethereum-deposits.ts) writing to  *)
(*                  the Deposit and Balance tables;                        *)
(*   SpecWithdraw - the withdrawal engine (solana withdrawals, tron.ts);   *)
(*   SpecScan     - the poll timers, guards and monitoring services.       *)
(* Every await of the source is a step boundary: other tasks of the single *)
(* Node process may run between two awaits of one call.                    *)
(***************************************************************************)
EXTENDS Integers, Sequences, FiniteSets, TLC

VARIABLES
    \* ---- persistent store (prisma) and deposit pipeline ----
    deposits,               \* Deposit table: sequence of rows, id = index
    balance,                \* Balance table, rows of the (user, currency) pair
    credits,                \* ghost: number of balance credits applied per txHash
    processedTransactions,  \* depositListeners: in-memory Set<string>
    dpc,                    \* position of each deposit task
    dtx,                    \* the transaction a deposit task is working on
    sawRow,                 \* updateUserBalanceAfterDeposit: result of findFirst
    failures,               \* number of store / chain failures and restarts so far
    \* ---- withdrawal engine and the chain ----
    pool,                   \* on-chain balance of the main pool, per currency
    ataExists,              \* the recipient's associated USDC token account exists
    transactions,           \* Transaction table (saveTransaction)
    userBalance,            \* ledger Balance Record of the withdrawing user, per currency
    wpc,                    \* position of each withdrawal call
    wcur,                   \* its currency
    wamt,                   \* its amount
    wvalid,                 \* its destination address is well formed
    wread,                  \* the pool balance it has read
    received,               \* ghost: units the chain moved to its recipient
    created,                \* ghost: it submitted a token-account creation
    debit,                  \* ghost: amount it debited from the user's balance
    \* ---- scheduling of the deposit scans ----
    isPolling,              \* solana-deposits.ts: module flag of pollForDeposits
    pollTimers,             \* interval timers armed on pollForDeposits
    pollScans,              \* pollForDeposits executions past the guard, not returned
    restartTimeouts,        \* pending setTimeout of restartNetwork
    monitorIsRunning,       \* DepositMonitorService.isRunning
    listenerTimers,         \* interval timers armed on monitorSolanaDeposits
    listenerScans,          \* monitorSolanaDeposits executions not returned
    serviceIsRunning,       \* DepositMonitoringService.isRunning
    \* ---- price oracle ----
    price,                  \* what the oracle quotes now
    qstage,                 \* position of each task among its oracle calls
    qrate,                  \* local rate of the task
    qarrival,               \* local realArrival of the task
    quotes,                 \* rate / realArrival columns of the Deposit Record, per txHash
    oracleFailed,           \* ghost: an oracle call failed while the txHash was processed
    \* ---- block-range scan of ethereum-deposits.ts ----
    chainHead,              \* number of the latest block of the chain
    lastProcessedBlock,     \* module variable lastProcessedBlock
    logsRead,               \* ghost: blocks whose logs were read, per address
    epc,                    \* position of checkRecentBlocksForDeposits
    ecur,                   \* its currentBlock
    etodo,                  \* addresses it has still to read
    eallRead,               \* ghost: no read of this check has failed
    \* ---- the Tron observer of blockchain/tron.ts ----
    tronHead,               \* number of the latest block of the Tron chain
    lastBlockNumber,        \* module variable lastBlockNumber
    wallets,                \* module variable wallets has been loaded
    tpc,                    \* position of each pollBlocks run
    thead,                  \* its currentBlockNumber, 0 when it is not running
    tbn,                    \* its loop variable bn, 0 when it is not running
    sweeps,                 \* the transferToMain tasks started, in order
    addrTrx,                \* TRX held by the deposit address, on chain
    addrUsdt,               \* USDT held by the deposit address, on chain
    tronUsd,                \* USD balance of the user, as topBalance leaves it
    cpc,                    \* position of the checkBalances chain
    craw,                   \* its balanceRaw, 0 outside maybeSweepUserDeposit
    usdtSweep,              \* USDT moved to the pool, recorded and credited
    \* ---- canWithdrawSol / canWithdrawUsdc ----
    canpc,                  \* position of the canWithdraw call
    canAsk,                 \* its currency and amount
    canAnswer,              \* what the last call returned, with what it was asked and read
    \* ---- utils/exchange.ts, on JavaScript numbers ----
    cvStage,                \* position of the caller of convert
    cvCall,                 \* amount, fromSymbol, toSymbol of the call
    cvRates,                \* what getRate returned to it
    cvResult,               \* what convert returned
    cvBack,                 \* what converting the result back returned
    \* ---- TON authentication of api/deposits.ts ----
    challengeStore,         \* Map challenge -> timestamp
    clock,                  \* Date.now(), in minutes
    vpc,                    \* position of each POST /verify request
    vreq,                   \* the message and the kind of signature it carries
    tokens,                 \* ghost: the JWTs issued, with the age of the challenge then
    \* ---- the shared TronWeb instance of blockchain/tron.ts ----
    defaultPrivateKey,      \* key held by tronWebInstance
    kpc,                    \* position of each Tron withdrawal call
    kfn,                    \* the function it runs
    spc,                    \* position of maybeSweepUserDeposit
    signatures,             \* ghost: transactions submitted, with the key that signed them
    \* ---- one transaction paying several monitored addresses ----
    payees,                 \* the monitored users each transaction of the chain pays
    depositRows,            \* Deposit table: the (txHash, userId) pairs recorded
    credited,               \* ghost: the (txHash, userId) pairs credited to a Balance Record
    ppc,                    \* position of the poll cycle: idle, or the user, the transaction and the await
    \* ---- DepositMonitorService of solana-deposits.ts ----
    networks,               \* DepositMonitorService.networks: the per-network flags
    \* ---- scan window of depositListeners/ethereum.ts ----
    ethHead,                \* number of the latest block of the Ethereum chain
    ethTxBlock,             \* the block of each transfer to the monitored address
    ethRecorded,            \* transfers with a Deposit Record
    scannedBlocks,          \* ghost: blocks that a getLogs request has covered
    lpc,                    \* position of monitorEthereumAddress
    lfrom,                  \* its fromBlock
    ltodo                   \* transactions it has still to process

dvars == <<deposits, balance, credits, processedTransactions, dpc, dtx, sawRow>>

wvars == <<pool, ataExists, transactions, userBalance, wpc, wcur, wamt, wvalid,
           wread, received, created, debit>>

svars == <<isPolling, pollTimers, pollScans, restartTimeouts, monitorIsRunning,
           listenerTimers, listenerScans, serviceIsRunning>>

ovars == <<price, qstage, qrate, qarrival, quotes, oracleFailed>>

bvars == <<chainHead, lastProcessedBlock, logsRead, epc, ecur, etodo, eallRead>>

fvars == <<canpc, canAsk, canAnswer>>

xvars == <<cvStage, cvCall, cvRates, cvResult, cvBack>>

avars == <<challengeStore, clock, vpc, vreq, tokens>>

tvars == <<tronHead, lastBlockNumber, wallets, tpc, thead, tbn, sweeps, addrTrx,
           addrUsdt, tronUsd, cpc, craw, usdtSweep>>

kvars == <<defaultPrivateKey, kpc, kfn, spc, signatures>>

pvars == <<payees, depositRows, credited, ppc>>

nvars == <<networks>>

lvars == <<ethHead, ethTxBlock, ethRecorded, scannedBlocks, lpc, lfrom, ltodo>>

vars == <<dvars, wvars, svars, ovars, bvars, tvars, fvars, xvars, avars, kvars, pvars, nvars, lvars, failures>>

notDeposit == <<wvars, svars, bvars, tvars, fvars, xvars, avars, kvars, pvars, nvars, lvars>>

notWithdraw == <<dvars, svars, ovars, bvars, tvars, fvars, xvars, avars, kvars, pvars, nvars, lvars>>

notScan == <<dvars, wvars, ovars, bvars, tvars, fvars, xvars, avars, kvars, pvars, nvars, lvars, failures>>

notBlocks == <<dvars, wvars, svars, ovars, tvars, fvars, xvars, avars, kvars, pvars, nvars, lvars>>

notTron == <<dvars, wvars, svars, ovars, bvars, fvars, xvars, avars, kvars, pvars, nvars, lvars>>

notCan == <<dvars, wvars, svars, ovars, bvars, tvars, xvars, avars, kvars, pvars, nvars, lvars>>

notConvert == <<dvars, wvars, svars, ovars, bvars, tvars, fvars, avars, kvars, pvars, nvars, lvars, failures>>

notAuth == <<dvars, wvars, svars, ovars, bvars, tvars, fvars, xvars, kvars, pvars, nvars, lvars>>

notKey == <<dvars, wvars, svars, ovars, bvars, tvars, fvars, xvars, avars, pvars, nvars, lvars>>

notPayee == <<dvars, wvars, svars, ovars, bvars, tvars, fvars, xvars, avars, kvars, nvars, lvars>>

notMonitor == <<dvars, wvars, ovars, bvars, tvars, fvars, xvars, avars, kvars, pvars, lvars, failures>>

notWindow == <<dvars, wvars, svars, ovars, bvars, tvars, fvars, xvars, avars, kvars, pvars, nvars>>

-----------------------------------------------------------------------------
(* Bounds *)

MaxFailures == 1

(***************************************************************************)
(* The chain: the transfers in the scanned window.  All of them are        *)
(* positive transfers to the monitored address of the one user.            *)
(***************************************************************************)
TxIds == {"t1", "t2"}

TxAmount(t) == IF t = "t1" THEN 2 ELSE 3

NoTx == "none"

\* Poll cycles of the depositListeners monitor (setInterval without a guard, or
\* runOnce, so two cycles overlap), the manual address check, and the
\* solana-deposits / ethereum-deposits pipeline.
ListenerProcs == {"L1", "L2"}
ManualProcs == {"M1"}
PollerProcs == {"P1"}
DepositProcs == ListenerProcs \cup ManualProcs \cup PollerProcs

-----------------------------------------------------------------------------
(* The store *)

\* prisma.deposit.findFirst({ where: { txHash } }) / count({ where: { txHash } })
RecordsOf(t) == {i \in DOMAIN deposits : deposits[i].txHash = t}

RecordCount(t) == Cardinality(RecordsOf(t))

DepositRow(t, st) == [txHash |-> t, amount |-> TxAmount(t), status |-> st]

\* The amount of the Balance Record of the (user, currency) pair.
BalanceValue == IF balance = <<>> THEN 0 ELSE balance[1]

\* balance.create({ data: { userId, currency, amount } }) when there is no row,
\* balance.update({ data: { amount: { increment: amount } } }) otherwise.
Incremented(b, a) == IF b = <<>> THEN <<a>> ELSE [b EXCEPT ![1] = @ + a]

-----------------------------------------------------------------------------
(* depositListeners: isTransactionProcessed / processDeposit *)

\* A poll cycle or a manual check starts: the monitored addresses and the
\* recent transactions of the address are listed (monitorSolanaDeposits /
\* monitorSolanaAddress, checkTronDepositsForAddress, pollForDeposits).
StartCycle(p) ==
    /\ dpc[p] = "idle"
    /\ dpc' = [dpc EXCEPT ![p] = "scan"]
    /\ UNCHANGED <<deposits, balance, credits, processedTransactions, dtx, sawRow, failures>>
    /\ UNCHANGED notDeposit
    /\ UNCHANGED ovars

\* The loop over the listed transactions ends.
EndCycle(p) ==
    /\ dpc[p] = "scan"
    /\ dpc' = [dpc EXCEPT ![p] = "idle"]
    /\ UNCHANGED <<deposits, balance, credits, processedTransactions, dtx, sawRow, failures>>
    /\ UNCHANGED notDeposit
    /\ UNCHANGED ovars

\* Where a task goes on after an error thrown while one transaction is
\* processed: monitorSolanaAddress and pollForDeposits catch it inside the loop
\* and continue with the next transaction; checkTronDepositsForAddress catches
\* it outside the loop and returns.
AfterThrow(p) == IF p \in ManualProcs THEN "idle" ELSE "scan"

\* Where processDeposit goes when prisma.deposit.create rejects: its catch
\* rethrows, so the balance write is skipped.
CreateErrorSwallowed(p) == "credit"

CreateErrorTarget(p) == AfterThrow(p)

\* isTransactionProcessed(txHash) in monitorSolanaAddress / monitorTronAddress /
\* monitorEthereumAddress: the seen-set, then the store; a record found is
\* remembered.  Otherwise the transfer is handed to processDeposit.
isTransactionProcessed(p, t) ==
    /\ p \in ListenerProcs
    /\ dpc[p] = "scan"
    /\ t \notin processedTransactions
    /\ IF RecordCount(t) > 0
       THEN /\ processedTransactions' = processedTransactions \cup {t}
            /\ UNCHANGED <<dpc, dtx>>
       ELSE /\ dpc' = [dpc EXCEPT ![p] = "create"]
            /\ dtx' = [dtx EXCEPT ![p] = t]
            /\ UNCHANGED processedTransactions
    /\ UNCHANGED <<deposits, balance, credits, sawRow, failures>>
    /\ UNCHANGED notDeposit
    /\ UNCHANGED ovars

\* checkTronDepositsForAddress: only the in-memory set is consulted before
\* processDeposit is called.
checkTronDepositsForAddress(p, t) ==
    /\ p \in ManualProcs
    /\ dpc[p] = "scan"
    /\ t \notin processedTransactions
    /\ dpc' = [dpc EXCEPT ![p] = "create"]
    /\ dtx' = [dtx EXCEPT ![p] = t]
    /\ UNCHANGED <<deposits, balance, credits, processedTransactions, sawRow, failures>>
    /\ UNCHANGED notDeposit
    /\ UNCHANGED ovars

\* processDeposit: await prisma.deposit.create({ ..., status: 'confirmed' }).
\* The unique index on txHash makes a second insert fail.
processDepositCreate(p) ==
    /\ p \in ListenerProcs \cup ManualProcs
    /\ dpc[p] = "create"
    /\ IF RecordCount(dtx[p]) > 0
       THEN /\ dpc' = [dpc EXCEPT ![p] = CreateErrorTarget(p)]
            /\ dtx' = [dtx EXCEPT ![p] = IF CreateErrorTarget(p) = "credit" THEN @ ELSE NoTx]
            /\ UNCHANGED deposits
       ELSE /\ deposits' = Append(deposits, DepositRow(dtx[p], "confirmed"))
            /\ dpc' = [dpc EXCEPT ![p] = "credit"]
            /\ UNCHANGED dtx
    /\ UNCHANGED <<balance, credits, processedTransactions, sawRow, failures>>
    /\ UNCHANGED notDeposit
    /\ UNCHANGED ovars

\* processDeposit: await prisma.$transaction(find balance; create or increment).
processDepositCredit(p) ==
    /\ p \in ListenerProcs \cup ManualProcs
    /\ dpc[p] = "credit"
    /\ balance' = Incremented(balance, TxAmount(dtx[p]))
    /\ credits' = [credits EXCEPT ![dtx[p]] = @ + 1]
    /\ dpc' = [dpc EXCEPT ![p] = "mark"]
    /\ UNCHANGED <<deposits, processedTransactions, dtx, sawRow, failures>>
    /\ UNCHANGED notDeposit
    /\ UNCHANGED ovars

\* processDeposit: processedTransactions.add(txHash), after both writes.
processDepositMark(p) ==
    /\ p \in ListenerProcs \cup ManualProcs
    /\ dpc[p] = "mark"
    /\ processedTransactions' = processedTransactions \cup {dtx[p]}
    /\ dpc' = [dpc EXCEPT ![p] = "scan"]
    /\ dtx' = [dtx EXCEPT ![p] = NoTx]
    /\ UNCHANGED <<deposits, balance, credits, sawRow, failures>>
    /\ UNCHANGED notDeposit
    /\ UNCHANGED ovars

-----------------------------------------------------------------------------
(* solana-deposits.ts / ethereum-deposits.ts: processSolanaTransaction *)

\* depositExists(signature): count > 0; a store error is answered false.
depositExists(p, t) ==
    /\ p \in PollerProcs
    /\ dpc[p] = "scan"
    /\ \/ /\ RecordCount(t) = 0
          /\ UNCHANGED failures
       \/ /\ RecordCount(t) > 0
          /\ failures < MaxFailures
          /\ failures' = failures + 1
    /\ dpc' = [dpc EXCEPT ![p] = "pcreate"]
    /\ dtx' = [dtx EXCEPT ![p] = t]
    /\ UNCHANGED <<deposits, balance, credits, processedTransactions, sawRow>>
    /\ UNCHANGED notDeposit
    /\ UNCHANGED ovars

\* createDeposit: prisma.deposit.create({ ..., status: 'pending' }); a
\* duplicate txHash throws and processSolanaTransaction's catch ends the call.
createDeposit(p) ==
    /\ p \in PollerProcs
    /\ dpc[p] = "pcreate"
    /\ IF RecordCount(dtx[p]) > 0
       THEN /\ dpc' = [dpc EXCEPT ![p] = AfterThrow(p)]
            /\ dtx' = [dtx EXCEPT ![p] = NoTx]
            /\ UNCHANGED deposits
       ELSE /\ deposits' = Append(deposits, DepositRow(dtx[p], "pending"))
            /\ dpc' = [dpc EXCEPT ![p] = "pstatus"]
            /\ UNCHANGED dtx
    /\ UNCHANGED <<balance, credits, processedTransactions, sawRow, failures>>
    /\ UNCHANGED notDeposit
    /\ UNCHANGED ovars

\* updateDepositStatus(signature, 'confirmed', 1)
updateDepositStatus(p) ==
    /\ p \in PollerProcs
    /\ dpc[p] = "pstatus"
    /\ deposits' = [i \in DOMAIN deposits |->
                       IF deposits[i].txHash = dtx[p]
                       THEN [deposits[i] EXCEPT !.status = "confirmed"]
                       ELSE deposits[i]]
    /\ dpc' = [dpc EXCEPT ![p] = "pbalfind"]
    /\ UNCHANGED <<balance, credits, processedTransactions, dtx, sawRow, failures>>
    /\ UNCHANGED notDeposit
    /\ UNCHANGED ovars

\* updateUserBalanceAfterDeposit: await prisma.balance.findFirst(...)
updateUserBalanceFind(p) ==
    /\ p \in PollerProcs
    /\ dpc[p] = "pbalfind"
    /\ sawRow' = [sawRow EXCEPT ![p] = (balance # <<>>)]
    /\ dpc' = [dpc EXCEPT ![p] = "pbalwrite"]
    /\ UNCHANGED <<deposits, balance, credits, processedTransactions, dtx, failures>>
    /\ UNCHANGED notDeposit
    /\ UNCHANGED ovars

\* updateUserBalanceAfterDeposit: balance.update (increment) when a row was
\* found, balance.create otherwise; the create fails on the unique
\* (userId, currency) index when a row has appeared since the find.
updateUserBalanceWrite(p) ==
    /\ p \in PollerProcs
    /\ dpc[p] = "pbalwrite"
    /\ IF sawRow[p] \/ balance = <<>>
       THEN /\ balance' = Incremented(balance, TxAmount(dtx[p]))
            /\ credits' = [credits EXCEPT ![dtx[p]] = @ + 1]
       ELSE UNCHANGED <<balance, credits>>
    /\ dpc' = [dpc EXCEPT ![p] = "scan"]
    /\ dtx' = [dtx EXCEPT ![p] = NoTx]
    /\ sawRow' = [sawRow EXCEPT ![p] = FALSE]
    /\ UNCHANGED <<deposits, processedTransactions, failures>>
    /\ UNCHANGED notDeposit
    /\ UNCHANGED ovars

\* PATCH /admin/:id/status: prisma.deposit.update({ where: { id }, data: { status } })
\* for any of 'pending', 'confirmed', 'failed'; the balance is not touched.
adminSetStatus(i, st) ==
    /\ i \in DOMAIN deposits
    /\ st \in {"pending", "confirmed", "failed"}
    /\ deposits[i].status # st
    /\ deposits' = [deposits EXCEPT ![i].status = st]
    /\ UNCHANGED <<balance, credits, processedTransactions, dpc, dtx, sawRow, failures>>
    /\ UNCHANGED notDeposit
    /\ UNCHANGED ovars

-----------------------------------------------------------------------------
(* Failures *)

\* A failure that marks the transaction as seen all the same, as a
\* processedTransactions.add placed in a finally block would.
StoreFailureMarks(p) ==
    /\ dpc[p] \in {"create", "credit", "pcreate", "pstatus", "pbalfind", "pbalwrite"}
    /\ failures < MaxFailures
    /\ failures' = failures + 1
    /\ processedTransactions' = processedTransactions \cup {dtx[p]}
    /\ dpc' = [dpc EXCEPT ![p] = AfterThrow(p)]
    /\ dtx' = [dtx EXCEPT ![p] = NoTx]
    /\ sawRow' = [sawRow EXCEPT ![p] = FALSE]
    /\ UNCHANGED <<deposits, balance, credits>>
    /\ UNCHANGED notDeposit
    /\ UNCHANGED ovars

\* The awaited store call of a task throws (connection lost, timeout): the
\* call has no effect, the error reaches the catch of the scan loop and the
\* task goes on with the next transaction.
StoreFailure(p) ==
    /\ dpc[p] \in {"create", "credit", "pcreate", "pstatus", "pbalfind", "pbalwrite"}
    /\ failures < MaxFailures
    /\ failures' = failures + 1
    /\ dpc' = [dpc EXCEPT ![p] = AfterThrow(p)]
    /\ dtx' = [dtx EXCEPT ![p] = NoTx]
    /\ sawRow' = [sawRow EXCEPT ![p] = FALSE]
    /\ UNCHANGED <<deposits, balance, credits, processedTransactions>>
    /\ UNCHANGED notDeposit
    /\ UNCHANGED ovars

\* The process is restarted: every task and the in-memory set are gone, the
\* store stays.
Restart ==
    /\ failures < MaxFailures
    /\ \E p \in DepositProcs : dpc[p] # "idle"
    /\ failures' = failures + 1
    /\ dpc' = [p \in DepositProcs |-> "idle"]
    /\ dtx' = [p \in DepositProcs |-> NoTx]
    /\ sawRow' = [p \in DepositProcs |-> FALSE]
    /\ processedTransactions' = {}
    /\ UNCHANGED <<deposits, balance, credits>>
    /\ UNCHANGED notDeposit
    /\ UNCHANGED ovars

-----------------------------------------------------------------------------
(* Withdrawal engine: blockchain/solana.ts (withdrawSol, withdrawUsdc),     *)
(* blockchain/tron.ts (withdrawTrx).  SOL is counted in 0.001 SOL, USDC in   *)
(* whole USDC, TRX in whole TRX.                                            *)

SOL_WITHDRAWAL_FEE == 5

USDC_WITHDRAWAL_FEE == 1

MIN_SOL_BALANCE == 10

MIN_USDC_BALANCE == 1

Currencies == {"SOL", "USDC", "TRX", "USDT"}

SolanaCurrencies == {"SOL", "USDC"}

\* The withdrawal calls in flight and the amounts they ask for.
Calls == {"w1", "w2"}

Amounts(c) == IF c = "SOL" THEN {10, 25} ELSE IF c = "USDC" THEN {2, 100} ELSE {3}

\* What the main pool holds on chain and what the user's ledger balance is when
\* the calls arrive.
PoolAtStart == [SOL |-> 35, USDC |-> 90, TRX |-> 10, USDT |-> 10]

UserBalancesAtStart ==
    {[SOL |-> 5, USDC |-> 1, TRX |-> 1, USDT |-> 1], [SOL |-> 30, USDC |-> 150, TRX |-> 5, USDT |-> 5]}

Fee(c) == IF c = "SOL" THEN SOL_WITHDRAWAL_FEE ELSE IF c = "USDC" THEN USDC_WITHDRAWAL_FEE ELSE 0

MinimumReserve(c) == IF c = "SOL" THEN MIN_SOL_BALANCE ELSE IF c = "USDC" THEN MIN_USDC_BALANCE ELSE 0

\* totalAmountBN = new BigNumber(amount).plus(FEE)
TotalAmount(c, a) == a + Fee(c)

\* The two tests made on the balance read from the chain:
\*   if (mainPoolBalance < lamports) throw ...
\*   if (remainingBalance.isLessThan(MIN_..._BALANCE)) throw ...
FirstCheckAlone(c, read, a) == read >= TotalAmount(c, a)

HasLiquidity(c, read, a) ==
    /\ read >= TotalAmount(c, a)
    /\ read - TotalAmount(c, a) >= MinimumReserve(c)

\* The units named in the transfer instruction: lamports / transferAmount are
\* computed from totalAmountBN; withdrawTrx sends parseInt(amount) * 1e6 sun.
TransferUnits(c, a) == IF c \in SolanaCurrencies THEN TotalAmount(c, a) ELSE a

Chain(c) == IF c \in SolanaCurrencies THEN "solana" ELSE "tron"

\* A pool-signed transaction of the call is submitted and not yet settled.
InFlight(w) == wpc[w] \in {"createacct", "send"}

\* A request of the call to a chain node is under way.
NetworkCall(w) == wpc[w] \in {"read", "contract", "getacct", "createacct", "send"}

Terminal == {"rejected_address", "rejected_liquidity", "failed", "done"}

\* withdrawSol / withdrawUsdc up to the first chain read: the destination is
\* parsed (new PublicKey(toAddress)), an invalid one throws; then the balance
\* of the pool is requested.
withdrawSolanaStart(w, c, a, ok) ==
    /\ wpc[w] = "idle"
    /\ c \in SolanaCurrencies
    /\ a \in Amounts(c)
    /\ wcur' = [wcur EXCEPT ![w] = c]
    /\ wamt' = [wamt EXCEPT ![w] = a]
    /\ wvalid' = [wvalid EXCEPT ![w] = ok]
    /\ wpc' = [wpc EXCEPT ![w] = IF ok THEN "read" ELSE "rejected_address"]
    /\ UNCHANGED <<pool, ataExists, transactions, userBalance, wread, received, created, debit, failures>>
    /\ UNCHANGED notWithdraw

\* withdrawTrx: tronWeb.setPrivateKey(main key), then
\* tronWeb.trx.sendTransaction(to, rawAmount) is awaited; nothing is read or
\* tested before.
withdrawTrxStart(w, a, ok) ==
    /\ wpc[w] = "idle"
    /\ a \in Amounts("TRX")
    /\ wcur' = [wcur EXCEPT ![w] = "TRX"]
    /\ wamt' = [wamt EXCEPT ![w] = a]
    /\ wvalid' = [wvalid EXCEPT ![w] = ok]
    /\ wpc' = [wpc EXCEPT ![w] = "send"]
    /\ UNCHANGED <<pool, ataExists, transactions, userBalance, wread, received, created, debit, failures>>
    /\ UNCHANGED notWithdraw

\* withdrawTokenTron: tronWeb.setPrivateKey(main key), then the USDT contract
\* is fetched (await tronWeb.contract().at(USDT_CONTRACT)); the destination has
\* not been looked at.
withdrawTokenTronStart(w, a, ok) ==
    /\ wpc[w] = "idle"
    /\ a \in Amounts("USDT")
    /\ wcur' = [wcur EXCEPT ![w] = "USDT"]
    /\ wamt' = [wamt EXCEPT ![w] = a]
    /\ wvalid' = [wvalid EXCEPT ![w] = ok]
    /\ wpc' = [wpc EXCEPT ![w] = "contract"]
    /\ UNCHANGED <<pool, ataExists, transactions, userBalance, wread, received, created, debit, failures>>
    /\ UNCHANGED notWithdraw

\* The contract is there: contract.transfer(to, rawAmount).send(...) is awaited.
withdrawTokenTronSend(w) ==
    /\ wpc[w] = "contract"
    /\ wpc' = [wpc EXCEPT ![w] = "send"]
    /\ UNCHANGED <<pool, ataExists, transactions, userBalance, wcur, wamt, wvalid, wread, received, created, debit, failures>>
    /\ UNCHANGED notWithdraw

\* connection.getBalance(mainPool) / getUsdcBalance(mainPool) answers, the two
\* tests follow without an await in between, and a call that passes goes
\* straight on to submit (SOL) or to look up the recipient's token account.
\* getUsdcBalance answers 0 when its getAccount throws.
readPoolBalance(w) ==
    /\ wpc[w] = "read"
    /\ \/ /\ wread' = [wread EXCEPT ![w] = pool[wcur[w]]]
          /\ UNCHANGED failures
       \/ /\ wcur[w] = "USDC"
          /\ failures < MaxFailures
          /\ failures' = failures + 1
          /\ wread' = [wread EXCEPT ![w] = 0]
    /\ wpc' = [wpc EXCEPT ![w] =
                  IF ~HasLiquidity(wcur[w], wread'[w], wamt[w]) THEN "rejected_liquidity"
                  ELSE IF wcur[w] = "SOL" THEN "send" ELSE "getacct"]
    /\ UNCHANGED <<pool, ataExists, transactions, userBalance, wcur, wamt, wvalid, received, created, debit>>
    /\ UNCHANGED notWithdraw

\* withdrawUsdc: try { await getAccount(recipientTokenAccount) } catch { create }.
\* Any error of the lookup, a failed read included, takes the creation branch.
getRecipientAccount(w) ==
    /\ wpc[w] = "getacct"
    /\ \/ /\ ataExists
          /\ wpc' = [wpc EXCEPT ![w] = "send"]
          /\ UNCHANGED <<created, failures>>
       \/ /\ ~ataExists
          /\ wpc' = [wpc EXCEPT ![w] = "createacct"]
          /\ created' = [created EXCEPT ![w] = TRUE]
          /\ UNCHANGED failures
       \/ /\ ataExists
          /\ failures < MaxFailures
          /\ failures' = failures + 1
          /\ wpc' = [wpc EXCEPT ![w] = "createacct"]
          /\ created' = [created EXCEPT ![w] = TRUE]
    /\ UNCHANGED <<pool, ataExists, transactions, userBalance, wcur, wamt, wvalid, wread, received, debit>>
    /\ UNCHANGED notWithdraw

\* The creation submitted with sendTransaction instead of
\* sendAndConfirmTransaction: the transfer follows before the account is there.
createAccountUnconfirmed(w) ==
    /\ wpc[w] = "createacct"
    /\ wpc' = [wpc EXCEPT ![w] = "send"]
    /\ UNCHANGED <<pool, ataExists, transactions, userBalance, wcur, wamt, wvalid, wread, received, created, debit, failures>>
    /\ UNCHANGED notWithdraw

\* The creation of the associated token account, paid by the pool, settles; it
\* fails when the account exists by now.  Then the transfer is submitted.
createAccountSettles(w) ==
    /\ wpc[w] = "createacct"
    /\ IF ataExists
       THEN /\ wpc' = [wpc EXCEPT ![w] = "failed"]
            /\ UNCHANGED ataExists
       ELSE /\ ataExists' = TRUE
            /\ wpc' = [wpc EXCEPT ![w] = "send"]
    /\ UNCHANGED <<pool, transactions, userBalance, wcur, wamt, wvalid, wread, received, created, debit, failures>>
    /\ UNCHANGED notWithdraw

\* sendAndConfirmTransaction / sendTransaction settles: the chain moves the
\* units of the instruction when the pool holds them, and rejects otherwise.
transferSettles(w) ==
    /\ wpc[w] = "send"
    /\ LET c == wcur[w]
           u == TransferUnits(c, wamt[w])
       IN IF wvalid[w] /\ pool[c] >= u
          THEN /\ pool' = [pool EXCEPT ![c] = @ - u]
               /\ received' = [received EXCEPT ![w] = u]
               /\ wpc' = [wpc EXCEPT ![w] = "save"]
          ELSE /\ wpc' = [wpc EXCEPT ![w] = "failed"]
               /\ UNCHANGED <<pool, received>>
    /\ UNCHANGED <<ataExists, transactions, userBalance, wcur, wamt, wvalid, wread, created, debit, failures>>
    /\ UNCHANGED notWithdraw

\* saveTransaction(userId, to, -amount, currency, signature, 'withdraw'): the
\* negative-amount Transaction record.  withdrawSol / withdrawUsdc go on to
\* minusBalance; withdrawTrx ends here.
saveTransaction(w) ==
    /\ wpc[w] = "save"
    /\ transactions' = transactions \cup
           {[call |-> w, amount |-> 0 - wamt[w], currency |-> wcur[w], type |-> "withdraw"]}
    /\ wpc' = [wpc EXCEPT ![w] = IF wcur[w] \in SolanaCurrencies THEN "debit" ELSE "done"]
    /\ UNCHANGED <<pool, ataExists, userBalance, wcur, wamt, wvalid, wread, received, created, debit, failures>>
    /\ UNCHANGED notWithdraw

\* minusBalance(userId, amount, currency): the Balance Record is tested before
\* it is decremented; a debit it cannot cover is refused.
minusBalance(w) ==
    /\ wpc[w] = "debit"
    /\ IF userBalance[wcur[w]] >= wamt[w]
       THEN /\ userBalance' = [userBalance EXCEPT ![wcur[w]] = @ - wamt[w]]
            /\ debit' = [debit EXCEPT ![w] = wamt[w]]
            /\ wpc' = [wpc EXCEPT ![w] = "done"]
       ELSE /\ wpc' = [wpc EXCEPT ![w] = "failed"]
            /\ UNCHANGED <<userBalance, debit>>
    /\ UNCHANGED <<pool, ataExists, transactions, wcur, wamt, wvalid, wread, received, created, failures>>
    /\ UNCHANGED notWithdraw

\* An awaited call of a withdrawal throws (RPC error, submission rejected or
\* timed out, store error): nothing is applied by the call, the catch of the
\* function logs and rethrows.
WithdrawFailure(w) ==
    /\ wpc[w] \in {"read", "contract", "createacct", "send", "save", "debit"}
    /\ failures < MaxFailures
    /\ failures' = failures + 1
    /\ wpc' = [wpc EXCEPT ![w] = "failed"]
    /\ UNCHANGED <<pool, ataExists, transactions, userBalance, wcur, wamt, wvalid, wread, received, created, debit>>
    /\ UNCHANGED notWithdraw

\* No withdrawal has been asked for.
IdleWithdrawVars ==
    /\ pool = PoolAtStart
    /\ ataExists = FALSE
    /\ transactions = {}
    /\ userBalance \in UserBalancesAtStart
    /\ wpc = [w \in Calls |-> "idle"]
    /\ wcur = [w \in Calls |-> "SOL"]
    /\ wamt = [w \in Calls |-> 0]
    /\ wvalid = [w \in Calls |-> FALSE]
    /\ wread = [w \in Calls |-> 0]
    /\ received = [w \in Calls |-> 0]
    /\ created = [w \in Calls |-> FALSE]
    /\ debit = [w \in Calls |-> 0]

-----------------------------------------------------------------------------
(* canWithdrawSol / canWithdrawUsdc: the feasibility answer given before a   *)
(* withdrawal is asked for.                                                  *)

\* The balances the main pool may hold when the question is put.
PoolBalances(c) ==
    IF c = "SOL" THEN {0, 14, 15, 24, 25, 39, 40, 45} ELSE {0, 2, 3, 4, 90, 101, 102}

\* Deposits swept into the pool and withdrawals paid from it move its balance.
poolMoves(c, b) ==
    /\ c \in SolanaCurrencies
    /\ b \in PoolBalances(c)
    /\ pool[c] # b
    /\ pool' = [pool EXCEPT ![c] = b]
    /\ UNCHANGED <<ataExists, transactions, userBalance, wpc, wcur, wamt, wvalid, wread,
                   received, created, debit, failures>>
    /\ UNCHANGED notWithdraw

\* The reserve test made on the balance less the amount, the fee left out.
ReserveWithoutFee(c, read, a) == ~(read - a < MinimumReserve(c))

\* remainingBalance = mainPoolBalance - (amount + FEE);
\* canWithdraw unless remainingBalance.isLessThan(MIN_..._BALANCE).
CanWithdraw(c, read, a) == ~(read - TotalAmount(c, a) < MinimumReserve(c))

NoReason == ""

\* The call runs up to await getMainPoolSolBalance() / getMainPoolUsdcBalance().
canWithdrawStart(c, a) ==
    /\ canpc = "idle"
    /\ c \in SolanaCurrencies
    /\ canpc' = "read"
    /\ canAsk' = [cur |-> c, amt |-> a]
    /\ UNCHANGED <<canAnswer, failures>>
    /\ UNCHANGED notCan

\* The balance is read and the answer is returned.
canWithdrawReturns ==
    /\ canpc = "read"
    /\ LET read == pool[canAsk.cur]
           ok == CanWithdraw(canAsk.cur, read, canAsk.amt)
       IN canAnswer' = <<[canWithdraw |-> ok,
                          reason |-> IF ok THEN NoReason ELSE "Insufficient balance",
                          read |-> <<read>>, cur |-> canAsk.cur, amt |-> canAsk.amt]>>
    /\ canpc' = "idle"
    /\ UNCHANGED <<canAsk, failures>>
    /\ UNCHANGED notCan

\* getUsdcBalance: its getAccount throws and the balance is taken to be 0.
canWithdrawUsdcNoAccount ==
    /\ canpc = "read"
    /\ canAsk.cur = "USDC"
    /\ failures < MaxFailures
    /\ failures' = failures + 1
    /\ LET ok == CanWithdraw(canAsk.cur, 0, canAsk.amt)
       IN canAnswer' = <<[canWithdraw |-> ok,
                          reason |-> IF ok THEN NoReason ELSE "Insufficient balance",
                          read |-> <<0>>, cur |-> canAsk.cur, amt |-> canAsk.amt]>>
    /\ canpc' = "idle"
    /\ UNCHANGED canAsk
    /\ UNCHANGED notCan

\* getMainPool...Balance throws 'Failed to get main pool ... balance': the
\* catch of canWithdraw answers with the message.
canWithdrawReadFails ==
    /\ canpc = "read"
    /\ failures < MaxFailures
    /\ failures' = failures + 1
    /\ canAnswer' = <<[canWithdraw |-> FALSE,
                       reason |-> "Failed to get main pool balance",
                       read |-> <<>>, cur |-> canAsk.cur, amt |-> canAsk.amt]>>
    /\ canpc' = "idle"
    /\ UNCHANGED canAsk
    /\ UNCHANGED notCan

\* No question has been put.
IdleCanVars ==
    /\ canpc = "idle"
    /\ canAsk = [cur |-> "SOL", amt |-> 0]
    /\ canAnswer = <<>>

-----------------------------------------------------------------------------
(* Scheduling of the deposit scans of one chain: solana-deposits.ts          *)
(* (pollForDeposits, DepositMonitorService) and depositListeners             *)
(* (monitorSolanaDeposits, DepositMonitoringService).  The ethereum and tron *)
(* modules are written the same way.                                         *)

MaxTimers == 2

MaxScans == 3

\* The networks of DepositMonitorService, in the order start() starts them.
Networks == {"solana", "ethereum", "tron"}

StartOrder == <<"solana", "ethereum", "tron">>

Position(n) == CHOOSE i \in 1..Len(StartOrder) : StartOrder[i] = n

StartedBefore(x, n) == Position(x) < Position(n)

\* pollForDeposits: if (isPolling) return; isPolling = true; the scan then
\* awaits.  Entered from the immediate call of startSolanaDepositMonitoring
\* and from every interval timer.
PollEntered == IF isPolling THEN pollScans ELSE pollScans + 1

\* setInterval(pollForDeposits, POLL_INTERVAL) fires.
pollForDeposits ==
    /\ pollTimers > 0
    /\ ~isPolling
    /\ pollScans < MaxScans
    /\ isPolling' = TRUE
    /\ pollScans' = pollScans + 1
    /\ UNCHANGED <<pollTimers, restartTimeouts, monitorIsRunning, listenerTimers, listenerScans, serviceIsRunning>>
    /\ UNCHANGED notScan

\* A cycle that leaves by a return placed outside the try: the finally is not
\* passed and the flag stays as it is.
pollForDepositsReturnsEarly ==
    /\ pollScans > 0
    /\ pollScans' = pollScans - 1
    /\ UNCHANGED <<isPolling, pollTimers, restartTimeouts, monitorIsRunning, listenerTimers, listenerScans, serviceIsRunning>>
    /\ UNCHANGED notScan

\* A running pollForDeposits reaches its finally, from the end of the loop,
\* from the return on an empty user list or from the catch: isPolling = false.
pollForDepositsReturns ==
    /\ pollScans > 0
    /\ pollScans' = pollScans - 1
    /\ isPolling' = FALSE
    /\ UNCHANGED <<pollTimers, restartTimeouts, monitorIsRunning, listenerTimers, listenerScans, serviceIsRunning>>
    /\ UNCHANGED notScan

\* DepositMonitorService.start(): startSolanaDepositMonitoring() polls at once
\* and arms an interval timer whose handle is dropped.
monitorStart ==
    /\ ~monitorIsRunning
    /\ pollTimers < MaxTimers
    /\ pollScans < MaxScans
    /\ pollScans' = PollEntered
    /\ isPolling' = TRUE
    /\ pollTimers' = pollTimers + 1
    /\ networks' = [n \in Networks |-> TRUE]
    /\ monitorIsRunning' = TRUE
    /\ UNCHANGED <<restartTimeouts, listenerTimers, listenerScans, serviceIsRunning>>
    /\ UNCHANGED notMonitor

\* DepositMonitorService.start() when the start of network n throws (its
\* connection cannot be set up): the networks before n are started and
\* flagged, the catch calls this.stop(), which returns at its first test
\* because isRunning is still false, and the error is thrown on.
monitorStartFails(n) ==
    /\ ~monitorIsRunning
    /\ networks' = [x \in Networks |-> IF StartedBefore(x, n) THEN TRUE ELSE networks[x]]
    /\ IF StartedBefore("solana", n)
       THEN /\ pollTimers < MaxTimers
            /\ pollScans < MaxScans
            /\ pollScans' = PollEntered
            /\ isPolling' = TRUE
            /\ pollTimers' = pollTimers + 1
       ELSE UNCHANGED <<pollScans, isPolling, pollTimers>>
    /\ UNCHANGED <<monitorIsRunning, restartTimeouts, listenerTimers, listenerScans, serviceIsRunning>>
    /\ UNCHANGED notMonitor

\* DepositMonitorService.stop(): stopSolanaDepositMonitoring() sets
\* isPolling = false; no timer is cleared.
monitorStop ==
    /\ monitorIsRunning
    /\ isPolling' = IF networks["solana"] THEN FALSE ELSE isPolling
    /\ networks' = [n \in Networks |-> FALSE]
    /\ monitorIsRunning' = FALSE
    /\ UNCHANGED <<pollTimers, pollScans, restartTimeouts, listenerTimers, listenerScans, serviceIsRunning>>
    /\ UNCHANGED notMonitor

\* DepositMonitorService.restartNetwork('solana'): stopSolanaDepositMonitoring()
\* and setTimeout(startSolanaDepositMonitoring, 1000).
restartNetwork ==
    /\ monitorIsRunning
    /\ pollTimers + restartTimeouts < MaxTimers
    /\ isPolling' = FALSE
    /\ restartTimeouts' = restartTimeouts + 1
    /\ UNCHANGED <<pollTimers, pollScans, monitorIsRunning, listenerTimers, listenerScans, serviceIsRunning>>
    /\ UNCHANGED notScan

\* The timeout of restartNetwork fires: startSolanaDepositMonitoring().
restartTimeoutFires ==
    /\ restartTimeouts > 0
    /\ pollScans < MaxScans
    /\ restartTimeouts' = restartTimeouts - 1
    /\ pollScans' = PollEntered
    /\ isPolling' = TRUE
    /\ pollTimers' = pollTimers + 1
    /\ UNCHANGED <<monitorIsRunning, listenerTimers, listenerScans, serviceIsRunning>>
    /\ UNCHANGED notScan

\* DepositMonitoringService.start(): startSolanaDepositMonitoring() of the
\* listeners runs monitorSolanaDeposits() at once and arms setInterval(..., 5000).
serviceStart ==
    /\ ~serviceIsRunning
    /\ listenerTimers < MaxTimers
    /\ listenerScans < MaxScans
    /\ listenerScans' = listenerScans + 1
    /\ listenerTimers' = listenerTimers + 1
    /\ serviceIsRunning' = TRUE
    /\ UNCHANGED <<isPolling, pollTimers, pollScans, restartTimeouts, monitorIsRunning>>
    /\ UNCHANGED notScan

\* DepositMonitoringService.stop(): the intervals array it clears is never
\* filled, so the timers stay armed.
serviceStop ==
    /\ serviceIsRunning
    /\ serviceIsRunning' = FALSE
    /\ UNCHANGED <<isPolling, pollTimers, pollScans, restartTimeouts, monitorIsRunning, listenerTimers, listenerScans>>
    /\ UNCHANGED notScan

\* An interval timer of the listeners fires, or runOnce() is called:
\* monitorSolanaDeposits() starts, whatever else is running.
monitorSolanaDeposits(byTimer) ==
    /\ byTimer => listenerTimers > 0
    /\ listenerScans < MaxScans
    /\ listenerScans' = listenerScans + 1
    /\ UNCHANGED <<isPolling, pollTimers, pollScans, restartTimeouts, monitorIsRunning, listenerTimers, serviceIsRunning>>
    /\ UNCHANGED notScan

\* A monitorSolanaDeposits() call settles.
monitorSolanaDepositsReturns ==
    /\ listenerScans > 0
    /\ listenerScans' = listenerScans - 1
    /\ UNCHANGED <<isPolling, pollTimers, pollScans, restartTimeouts, monitorIsRunning, listenerTimers, serviceIsRunning>>
    /\ UNCHANGED notScan

\* Nothing has been started.
IdleScanVars ==
    /\ isPolling = FALSE
    /\ pollTimers = 0
    /\ pollScans = 0
    /\ restartTimeouts = 0
    /\ monitorIsRunning = FALSE
    /\ listenerTimers = 0
    /\ listenerScans = 0
    /\ serviceIsRunning = FALSE

\* The service object has been constructed.
IdleNetworkVars == networks = [n \in Networks |-> FALSE]

-----------------------------------------------------------------------------
(* The price oracle in the deposit pipelines: utils/exchange.ts (convert),   *)
(* processDeposit of the listeners and createDeposit of db/deposits, at the  *)
(* granularity of the oracle calls.                                          *)

\* What the oracle may quote for one unit of the deposit currency, in USD.
Prices == {150, 160}

\* A nullable number: <<>> is null, <<v>> is v.
Null == <<>>

\* toUSDT of convert: the quoted price, 1 for USD, USDT and USDC.
ToUSDT(sym, p) == IF sym \in {"USD", "USDT", "USDC"} THEN 1 ELSE p

\* convert(amount, from, to): amount * toUSDT[from] / toUSDT[to], at the price
\* quoted when getRate answers, for the calls of the deposit pipelines and the
\* sweeps: whole amounts into USD or USDT, where the divisor is 1 and the
\* product is exact.  convertNumber below is convert on any numbers.
convert(a, from, to, p) == (a * ToUSDT(from, p)) \div ToUSDT(to, p)

\* The tasks followed through their oracle calls.
QuoteProcs == {"L1", "P1"}

\* What the code puts in rate / realArrival when no conversion succeeded:
\* processDeposit starts from let rate = 1, realArrival = amount.
ListenerFallback(t) == [rate |-> <<1>>, realArrival |-> <<TxAmount(t)>>]

\* The second value processDeposit asks the oracle for, in a call of its own:
\* realArrival = await convert(amount, currency, 'USD').
ListenerArrival(t, p) == convert(TxAmount(t), "SOL", "USD", p)

\* The oracle price changes.
oracleMoves ==
    /\ \E p \in Prices \ {price} : price' = p
    /\ UNCHANGED <<qstage, qrate, qarrival, quotes, oracleFailed, dvars, failures>>
    /\ UNCHANGED notDeposit

\* processDeposit: rate = await convert(1, currency, 'USD').  When it throws,
\* the catch leaves rate and realArrival as initialised.
processDepositConvertRate(p) ==
    /\ p \in ListenerProcs \cup ManualProcs
    /\ dpc[p] = "create"
    /\ qstage[p] = "none"
    /\ \/ /\ qrate' = [qrate EXCEPT ![p] = <<convert(1, "SOL", "USD", price)>>]
          /\ qarrival' = [qarrival EXCEPT ![p] = ListenerFallback(dtx[p]).realArrival]
          /\ qstage' = [qstage EXCEPT ![p] = "arrival"]
          /\ UNCHANGED <<oracleFailed, failures>>
       \/ /\ failures < MaxFailures
          /\ failures' = failures + 1
          /\ qrate' = [qrate EXCEPT ![p] = ListenerFallback(dtx[p]).rate]
          /\ qarrival' = [qarrival EXCEPT ![p] = ListenerFallback(dtx[p]).realArrival]
          /\ qstage' = [qstage EXCEPT ![p] = "done"]
          /\ oracleFailed' = [oracleFailed EXCEPT ![dtx[p]] = TRUE]
    /\ UNCHANGED <<price, quotes, dvars>>
    /\ UNCHANGED notDeposit

\* processDeposit: realArrival = await convert(amount, currency, 'USD').
processDepositConvertArrival(p) ==
    /\ dpc[p] = "create"
    /\ qstage[p] = "arrival"
    /\ \/ /\ qarrival' = [qarrival EXCEPT ![p] = <<ListenerArrival(dtx[p], price)>>]
          /\ UNCHANGED <<oracleFailed, failures>>
       \/ /\ failures < MaxFailures
          /\ failures' = failures + 1
          /\ oracleFailed' = [oracleFailed EXCEPT ![dtx[p]] = TRUE]
          /\ UNCHANGED qarrival
    /\ qstage' = [qstage EXCEPT ![p] = "done"]
    /\ UNCHANGED <<price, qrate, quotes, dvars>>
    /\ UNCHANGED notDeposit

\* createDeposit: rate = await convert(1, data.currency, 'USD');
\* realArrival = data.amount * rate; both stay null when convert throws.
createDepositConvert(p) ==
    /\ p \in PollerProcs
    /\ dpc[p] = "pcreate"
    /\ qstage[p] = "none"
    /\ \/ /\ qrate' = [qrate EXCEPT ![p] = <<convert(1, "SOL", "USD", price)>>]
          /\ qarrival' = [qarrival EXCEPT ![p] = <<TxAmount(dtx[p]) * convert(1, "SOL", "USD", price)>>]
          /\ UNCHANGED <<oracleFailed, failures>>
       \/ /\ failures < MaxFailures
          /\ failures' = failures + 1
          /\ qrate' = [qrate EXCEPT ![p] = Null]
          /\ qarrival' = [qarrival EXCEPT ![p] = Null]
          /\ oracleFailed' = [oracleFailed EXCEPT ![dtx[p]] = TRUE]
    /\ qstage' = [qstage EXCEPT ![p] = "done"]
    /\ UNCHANGED <<price, quotes, dvars>>
    /\ UNCHANGED notDeposit

\* prisma.deposit.create of processDeposit (status 'confirmed') and of
\* createDeposit (status 'pending'), with the rate and realArrival obtained.
\* A duplicate txHash throws.
depositCreateQuoted(p) ==
    /\ dpc[p] \in {"create", "pcreate"}
    /\ qstage[p] = "done"
    /\ IF RecordCount(dtx[p]) > 0
       THEN /\ dpc' = [dpc EXCEPT ![p] = AfterThrow(p)]
            /\ dtx' = [dtx EXCEPT ![p] = NoTx]
            /\ UNCHANGED <<deposits, quotes>>
       ELSE /\ deposits' = Append(deposits,
                   DepositRow(dtx[p], IF dpc[p] = "create" THEN "confirmed" ELSE "pending"))
            /\ quotes' = [quotes EXCEPT ![dtx[p]] = [rate |-> qrate[p], realArrival |-> qarrival[p]]]
            /\ dpc' = [dpc EXCEPT ![p] = IF dpc[p] = "create" THEN "credit" ELSE "pstatus"]
            /\ UNCHANGED dtx
    /\ qstage' = [qstage EXCEPT ![p] = "none"]
    /\ UNCHANGED <<price, qrate, qarrival, oracleFailed, balance, credits,
                   processedTransactions, sawRow, failures>>
    /\ UNCHANGED notDeposit

\* No oracle call has been made.
IdleOracleVars ==
    /\ price = CHOOSE p \in Prices : \A q \in Prices : p <= q
    /\ qstage = [p \in DepositProcs |-> "none"]
    /\ qrate = [p \in DepositProcs |-> Null]
    /\ qarrival = [p \in DepositProcs |-> Null]
    /\ quotes = [t \in TxIds |-> [rate |-> Null, realArrival |-> Null]]
    /\ oracleFailed = [t \in TxIds |-> FALSE]

-----------------------------------------------------------------------------
(* Block-range scan of ethereum-deposits.ts: checkRecentBlocksForDeposits,   *)
(* getRecentTransactionsForAddress and the high-water mark                   *)
(* lastProcessedBlock.                                                       *)

BLOCK_RANGE == 100

MaxNewBlocks == 3

EthAddresses == {"a1", "a2"}

\* The chain head when the process starts, and how far it may grow.
FirstHead == BLOCK_RANGE + 1

LastHead == FirstHead + MaxNewBlocks

Max(a, b) == IF a >= b THEN a ELSE b

\* fromBlock = Math.max(currentBlock - BLOCK_RANGE, lastProcessedBlock + 1)
FromBlock(cur, last) == Max(cur - BLOCK_RANGE, last + 1)

\* What lastProcessedBlock becomes at the end of checkRecentBlocksForDeposits:
\* lastProcessedBlock = currentBlock, whatever the reads returned.
MarkAfterCheck(cur, last, allRead) == cur

\* A block is mined.
newBlock ==
    /\ chainHead < LastHead
    /\ chainHead' = chainHead + 1
    /\ UNCHANGED <<lastProcessedBlock, logsRead, epc, ecur, etodo, eallRead, failures>>
    /\ UNCHANGED notBlocks

\* checkRecentBlocksForDeposits: currentBlock = await provider.getBlockNumber()
checkRecentBlocksForDeposits ==
    /\ epc = "idle"
    /\ epc' = "logs"
    /\ ecur' = chainHead
    /\ etodo' = EthAddresses
    /\ eallRead' = TRUE
    /\ UNCHANGED <<chainHead, lastProcessedBlock, logsRead, failures>>
    /\ UNCHANGED notBlocks

\* getRecentTransactionsForAddress(address, fromBlock, currentBlock):
\* provider.getLogs answers, or throws and the catch returns [].
getRecentTransactionsForAddress(a) ==
    /\ epc = "logs"
    /\ a \in etodo
    /\ \/ /\ logsRead' = [logsRead EXCEPT ![a] =
                             @ \cup (FromBlock(ecur, lastProcessedBlock) .. ecur)]
          /\ UNCHANGED <<eallRead, failures>>
       \/ /\ failures < MaxFailures
          /\ failures' = failures + 1
          /\ eallRead' = FALSE
          /\ UNCHANGED logsRead
    /\ etodo' = etodo \ {a}
    /\ UNCHANGED <<chainHead, lastProcessedBlock, epc, ecur>>
    /\ UNCHANGED notBlocks

\* The loop over the addresses has ended: lastProcessedBlock = currentBlock.
checkRecentBlocksEnd ==
    /\ epc = "logs"
    /\ etodo = {}
    /\ lastProcessedBlock' = MarkAfterCheck(ecur, lastProcessedBlock, eallRead)
    /\ epc' = "idle"
    /\ UNCHANGED <<chainHead, logsRead, ecur, etodo, eallRead, failures>>
    /\ UNCHANGED notBlocks

\* provider.getBlockNumber() throws: the outer catch ends the call.
getBlockNumberFails ==
    /\ epc = "idle"
    /\ failures < MaxFailures
    /\ failures' = failures + 1
    /\ UNCHANGED <<chainHead, lastProcessedBlock, logsRead, epc, ecur, etodo, eallRead>>
    /\ UNCHANGED notBlocks

\* The process has just started: let lastProcessedBlock = 0.
IdleBlockVars ==
    /\ chainHead = FirstHead
    /\ lastProcessedBlock = 0
    /\ logsRead = [a \in EthAddresses |-> {}]
    /\ epc = "idle"
    /\ ecur = 0
    /\ etodo = {}
    /\ eallRead = TRUE

-----------------------------------------------------------------------------
(* The Tron observer: blockchain/tron.ts.  pollBlocks reads the new blocks  *)
(* on a 3-second interval and starts transferToMain, without awaiting it,   *)
(* for every TRX transfer above 5 TRX to a wallet; checkBalances reads the  *)
(* USDT balance of the wallets and sweeps it with maybeSweepUserDeposit.    *)
(* TRX is counted in 0.1 TRX, USDT in whole USDT.                           *)

MaxTronBlocks == 1

MaxSweeps == 2

MIN_SWEEP_USDT == 10

GAS_AMOUNT == 20

\* Firings of setInterval(pollBlocks, 3000): the interval does not wait for
\* the run before it, so two runs overlap.
TronPolls == {"b1", "b2"}

\* The TRX transfers to the one monitored wallet, and the block of each.
TronTxs == {"x1"}

TronTxAmount(x) == 60

BlockTransfers(bn) == IF bn = 1 THEN TronTxs ELSE {}

\* What the deposit address holds besides the transfers: transfers of 5 TRX
\* or less, which pollBlocks does not sweep.
TrxResidues == {0, 60}

\* transferToMain: amountToSend = amount.minus(feeBuffer), feeBuffer 0.1 TRX.
AmountToSend(x) == TronTxAmount(x) - 1

\* pollBlocks: addr && amount.gt(0) && amount.toNumber() > 5.
Detected(bn) ==
    IF wallets THEN {x \in BlockTransfers(bn) : TronTxAmount(x) > 50} ELSE {}

SweepTask(x) == [tx |-> x, pc |-> "send", sent |-> FALSE, saved |-> FALSE,
                 usd |-> 0, credited |-> 0]

RECURSIVE Started(_, _)
Started(tasks, found) ==
    IF found = {} THEN tasks
    ELSE LET x == CHOOSE y \in found : TRUE
         IN Started(Append(tasks, SweepTask(x)), found \ {x})

\* setInterval(async () => { wallets = await getAllWallets("Tron") }, 10000)
loadWallets ==
    /\ ~wallets
    /\ wallets' = TRUE
    /\ UNCHANGED <<tronHead, lastBlockNumber, tpc, thead, tbn, sweeps, addrTrx,
                   addrUsdt, tronUsd, cpc, craw, usdtSweep, failures>>
    /\ UNCHANGED notTron

newTronBlock ==
    /\ tronHead < 1 + MaxTronBlocks
    /\ tronHead' = tronHead + 1
    /\ UNCHANGED <<lastBlockNumber, wallets, tpc, thead, tbn, sweeps, addrTrx,
                   addrUsdt, tronUsd, cpc, craw, usdtSweep, failures>>
    /\ UNCHANGED notTron

\* The interval fires: pollBlocks runs up to await getCurrentBlock().
pollBlocks(b) ==
    /\ tpc[b] = "idle"
    /\ tpc' = [tpc EXCEPT ![b] = "head"]
    /\ UNCHANGED <<tronHead, lastBlockNumber, wallets, thead, tbn, sweeps, addrTrx,
                   addrUsdt, tronUsd, cpc, craw, usdtSweep, failures>>
    /\ UNCHANGED notTron

\* getCurrentBlock answers: if (!lastBlockNumber) lastBlockNumber =
\* currentBlockNumber - 1; the loop starts at lastBlockNumber + 1 and runs up
\* to await getBlock(bn); with no block to read, lastBlockNumber =
\* currentBlockNumber at once.
pollBlocksHead(b) ==
    /\ tpc[b] = "head"
    /\ LET cur == tronHead
           last == IF lastBlockNumber = 0 THEN cur - 1 ELSE lastBlockNumber
       IN IF last + 1 <= cur
          THEN /\ lastBlockNumber' = last
               /\ thead' = [thead EXCEPT ![b] = cur]
               /\ tbn' = [tbn EXCEPT ![b] = last + 1]
               /\ tpc' = [tpc EXCEPT ![b] = "block"]
          ELSE /\ lastBlockNumber' = cur
               /\ tpc' = [tpc EXCEPT ![b] = "idle"]
               /\ UNCHANGED <<thead, tbn>>
    /\ UNCHANGED <<tronHead, wallets, sweeps, addrTrx, addrUsdt, tronUsd, cpc, craw,
                   usdtSweep, failures>>
    /\ UNCHANGED notTron

\* getBlock(bn) answers: transferToMain is called, not awaited, for every
\* transfer found; then the next block, or lastBlockNumber = currentBlockNumber.
pollBlocksBlock(b) ==
    /\ tpc[b] = "block"
    /\ Len(sweeps) + Cardinality(Detected(tbn[b])) <= MaxSweeps
    /\ sweeps' = Started(sweeps, Detected(tbn[b]))
    /\ IF tbn[b] + 1 <= thead[b]
       THEN /\ tbn' = [tbn EXCEPT ![b] = tbn[b] + 1]
            /\ UNCHANGED <<tpc, thead, lastBlockNumber>>
       ELSE /\ lastBlockNumber' = thead[b]
            /\ tpc' = [tpc EXCEPT ![b] = "idle"]
            /\ thead' = [thead EXCEPT ![b] = 0]
            /\ tbn' = [tbn EXCEPT ![b] = 0]
    /\ UNCHANGED <<tronHead, wallets, addrTrx, addrUsdt, tronUsd, cpc, craw,
                   usdtSweep, failures>>
    /\ UNCHANGED notTron

\* getCurrentBlock or getBlock rejects: pollBlocks has no try, the run ends
\* there and lastBlockNumber keeps its value.
pollBlocksFails(b) ==
    /\ tpc[b] \in {"head", "block"}
    /\ failures < MaxFailures
    /\ failures' = failures + 1
    /\ tpc' = [tpc EXCEPT ![b] = "idle"]
    /\ thead' = [thead EXCEPT ![b] = 0]
    /\ tbn' = [tbn EXCEPT ![b] = 0]
    /\ UNCHANGED <<tronHead, lastBlockNumber, wallets, sweeps, addrTrx,
                   addrUsdt, tronUsd, cpc, craw, usdtSweep>>
    /\ UNCHANGED notTron

\* transferToMain: sendTransaction(MAIN_POOL_ADDRESS, amountSun).  The node
\* refuses a transfer the address cannot pay; the catch logs it.
transferToMainSend(i) ==
    /\ i \in DOMAIN sweeps
    /\ sweeps[i].pc = "send"
    /\ IF addrTrx >= AmountToSend(sweeps[i].tx)
       THEN /\ addrTrx' = addrTrx - AmountToSend(sweeps[i].tx)
            /\ sweeps' = [sweeps EXCEPT ![i].sent = TRUE, ![i].pc = "convert"]
       ELSE /\ sweeps' = [sweeps EXCEPT ![i].pc = "failed"]
            /\ UNCHANGED addrTrx
    /\ UNCHANGED <<tronHead, lastBlockNumber, wallets, tpc, thead, tbn, addrUsdt,
                   tronUsd, cpc, craw, usdtSweep, failures>>
    /\ UNCHANGED notTron

\* amountUSD = await convert(amount, "TRX", "USDT")
transferToMainConvert(i) ==
    /\ i \in DOMAIN sweeps
    /\ sweeps[i].pc = "convert"
    /\ sweeps' = [sweeps EXCEPT
                    ![i].usd = convert(TronTxAmount(sweeps[i].tx), "TRX", "USDT", price),
                    ![i].pc = "save"]
    /\ UNCHANGED <<tronHead, lastBlockNumber, wallets, tpc, thead, tbn, addrTrx,
                   addrUsdt, tronUsd, cpc, craw, usdtSweep, failures>>
    /\ UNCHANGED notTron

\* await saveTransaction(userId, publicKey, amountToSend, "TRX", txId, "deposit").
\* The table takes the same txId again: the USDT sweep and the token
\* withdrawal save every entry under the txId '-'.
transferToMainSave(i) ==
    /\ i \in DOMAIN sweeps
    /\ sweeps[i].pc = "save"
    /\ sweeps' = [sweeps EXCEPT ![i].saved = TRUE, ![i].pc = "top"]
    /\ UNCHANGED <<tronHead, lastBlockNumber, wallets, tpc, thead, tbn, addrTrx,
                   addrUsdt, tronUsd, cpc, craw, usdtSweep, failures>>
    /\ UNCHANGED notTron

\* await topBalance(userId, amountUSD, "USD")
transferToMainTop(i) ==
    /\ i \in DOMAIN sweeps
    /\ sweeps[i].pc = "top"
    /\ tronUsd' = tronUsd + sweeps[i].usd
    /\ sweeps' = [sweeps EXCEPT ![i].credited = sweeps[i].usd, ![i].pc = "done"]
    /\ UNCHANGED <<tronHead, lastBlockNumber, wallets, tpc, thead, tbn, addrTrx,
                   addrUsdt, cpc, craw, usdtSweep, failures>>
    /\ UNCHANGED notTron

\* One of the awaited calls of transferToMain rejects: catch (err) logs it.
transferToMainFails(i) ==
    /\ i \in DOMAIN sweeps
    /\ sweeps[i].pc \in {"send", "convert", "save", "top"}
    /\ failures < MaxFailures
    /\ failures' = failures + 1
    /\ sweeps' = [sweeps EXCEPT ![i].pc = "failed"]
    /\ UNCHANGED <<tronHead, lastBlockNumber, wallets, tpc, thead, tbn, addrTrx,
                   addrUsdt, tronUsd, cpc, craw, usdtSweep>>
    /\ UNCHANGED notTron

\* checkBalances, from startObserverTron or from its own setTimeout: with no
\* wallet loaded it only sets the timeout again; else it runs up to
\* await triggerSmartContract(... 'balanceOf(address)' ...).
checkBalances ==
    /\ cpc = "idle"
    /\ wallets
    /\ cpc' = "balanceOf"
    /\ UNCHANGED <<tronHead, lastBlockNumber, wallets, tpc, thead, tbn, sweeps,
                   addrTrx, addrUsdt, tronUsd, craw, usdtSweep, failures>>
    /\ UNCHANGED notTron

\* balanceOf answers: maybeSweepUserDeposit when balance.gte(MIN_SWEEP_USDT),
\* which runs up to await tw.trx.getBalance(depositAddr).
checkBalancesRead ==
    /\ cpc = "balanceOf"
    /\ IF addrUsdt >= MIN_SWEEP_USDT
       THEN craw' = addrUsdt /\ cpc' = "gas"
       ELSE craw' = 0 /\ cpc' = "idle"
    /\ UNCHANGED <<tronHead, lastBlockNumber, wallets, tpc, thead, tbn, sweeps,
                   addrTrx, addrUsdt, tronUsd, usdtSweep, failures>>
    /\ UNCHANGED notTron

\* getBalance answers: if (trxBalance < GAS_AMOUNT) the pool sends the gas.
maybeSweepGas ==
    /\ cpc = "gas"
    /\ cpc' = IF addrTrx < GAS_AMOUNT THEN "topup" ELSE "transfer"
    /\ UNCHANGED <<tronHead, lastBlockNumber, wallets, tpc, thead, tbn, sweeps,
                   addrTrx, addrUsdt, tronUsd, craw, usdtSweep, failures>>
    /\ UNCHANGED notTron

\* The top-up with waitForConfirmation not awaited: the token transfer is
\* submitted as soon as sendTransaction has answered.
maybeSweepTopUpNoWait ==
    /\ cpc = "topup"
    /\ addrTrx' = addrTrx + GAS_AMOUNT
    /\ cpc' = "transfer"
    /\ UNCHANGED <<tronHead, lastBlockNumber, wallets, tpc, thead, tbn, sweeps,
                   addrUsdt, tronUsd, craw, usdtSweep, failures>>
    /\ UNCHANGED notTron

\* sendTransaction(depositAddr, GAS_AMOUNT) from the pool answers.
maybeSweepTopUp ==
    /\ cpc = "topup"
    /\ addrTrx' = addrTrx + GAS_AMOUNT
    /\ cpc' = "confirm"
    /\ UNCHANGED <<tronHead, lastBlockNumber, wallets, tpc, thead, tbn, sweeps,
                   addrUsdt, tronUsd, craw, usdtSweep, failures>>
    /\ UNCHANGED notTron

\* waitForConfirmation(txid) returns the receipt.
maybeSweepConfirmed ==
    /\ cpc = "confirm"
    /\ cpc' = "transfer"
    /\ UNCHANGED <<tronHead, lastBlockNumber, wallets, tpc, thead, tbn, sweeps,
                   addrTrx, addrUsdt, tronUsd, craw, usdtSweep, failures>>
    /\ UNCHANGED notTron

\* contract2.transfer(MAIN_POOL_ADDRESS, balanceRaw).send(...) answers.
maybeSweepTransfer ==
    /\ cpc = "transfer"
    /\ addrUsdt >= craw
    /\ addrUsdt' = addrUsdt - craw
    /\ usdtSweep' = [usdtSweep EXCEPT !.sent = usdtSweep.sent + craw]
    /\ cpc' = "save"
    /\ UNCHANGED <<tronHead, lastBlockNumber, wallets, tpc, thead, tbn, sweeps,
                   addrTrx, tronUsd, craw, failures>>
    /\ UNCHANGED notTron

\* await saveTransaction(userId, depositAddr, amountToSend, "USDT", '-', "deposit")
maybeSweepSave ==
    /\ cpc = "save"
    /\ usdtSweep' = [usdtSweep EXCEPT !.saved = usdtSweep.saved + craw]
    /\ cpc' = "top"
    /\ UNCHANGED <<tronHead, lastBlockNumber, wallets, tpc, thead, tbn, sweeps,
                   addrTrx, addrUsdt, tronUsd, craw, failures>>
    /\ UNCHANGED notTron

\* await topBalance(userId, amountToSend, "USD"); checkBalances then sets its
\* timeout again.
maybeSweepTop ==
    /\ cpc = "top"
    /\ tronUsd' = tronUsd + craw
    /\ usdtSweep' = [usdtSweep EXCEPT !.credited = usdtSweep.credited + craw]
    /\ cpc' = "idle"
    /\ craw' = 0
    /\ UNCHANGED <<tronHead, lastBlockNumber, wallets, tpc, thead, tbn, sweeps,
                   addrTrx, addrUsdt, failures>>
    /\ UNCHANGED notTron

\* One of the awaited calls of checkBalances or maybeSweepUserDeposit rejects:
\* the catch around the wallet logs it, and the timeout is set again.
checkBalancesFails ==
    /\ cpc \in {"balanceOf", "gas", "topup", "confirm", "transfer", "save", "top"}
    /\ failures < MaxFailures
    /\ failures' = failures + 1
    /\ cpc' = "idle"
    /\ craw' = 0
    /\ UNCHANGED <<tronHead, lastBlockNumber, wallets, tpc, thead, tbn, sweeps,
                   addrTrx, addrUsdt, tronUsd, usdtSweep>>
    /\ UNCHANGED notTron

\* The module has just been loaded: lastBlockNumber = 0, wallets = []; the
\* deposit address holds the transfers of the chain and the residue r.
TronVarsAtStart(r) ==
    /\ tronHead = 1
    /\ lastBlockNumber = 0
    /\ wallets = FALSE
    /\ tpc = [b \in TronPolls |-> "idle"]
    /\ thead = [b \in TronPolls |-> 0]
    /\ tbn = [b \in TronPolls |-> 0]
    /\ sweeps = <<>>
    /\ addrTrx = TronTxAmount("x1") + r
    /\ addrUsdt = MIN_SWEEP_USDT
    /\ tronUsd = 0
    /\ cpc = "idle"
    /\ craw = 0
    /\ usdtSweep = [sent |-> 0, saved |-> 0, credited |-> 0]

IdleTronVars == TronVarsAtStart(0)

-----------------------------------------------------------------------------
(* utils/exchange.ts on JavaScript numbers.  convert multiplies and divides  *)
(* IEEE doubles: every product and quotient is rounded to the nearest number *)
(* of Precision significant bits, ties to even.  A number is m * 2^e with    *)
(* 2^(Precision-1) <= m < 2^Precision; the doubles have 53 such bits.  Only  *)
(* positive numbers and NaN occur.                                           *)

Precision == 8

NaN == [m |-> -1, e |-> 0]

RECURSIVE Scaled(_, _, _)
Scaled(num, den, e) ==
    IF num >= den * 2^Precision THEN Scaled(num, den * 2, e + 1)
    ELSE IF num < den * 2^(Precision - 1) THEN Scaled(num * 2, den, e - 1)
    ELSE [num |-> num, den |-> den, e |-> e]

\* The number nearest to num / den.
Rounded(num, den) ==
    LET s == Scaled(num, den, 0)
        q == s.num \div s.den
        r == s.num % s.den
        mm == IF 2 * r > s.den \/ (2 * r = s.den /\ q % 2 = 1) THEN q + 1 ELSE q
    IN IF mm = 2^Precision THEN [m |-> 2^(Precision - 1), e |-> s.e + 1]
       ELSE [m |-> mm, e |-> s.e]

Number(n) == Rounded(n, 1)

\* x * y and x / y of JavaScript.
Times(x, y) ==
    IF x = NaN \/ y = NaN THEN NaN
    ELSE LET r == Rounded(x.m * y.m, 1) IN [m |-> r.m, e |-> r.e + x.e + y.e]

Over(x, y) ==
    IF x = NaN \/ y = NaN THEN NaN
    ELSE LET r == Rounded(x.m, y.m) IN [m |-> r.m, e |-> r.e + x.e - y.e]

\* The symbols callers pass, in the letter cases they use.
Spellings == {"USD", "usd", "USDT", "USDC", "usdc", "SOL", "Sol", "TRX", "eth"}

\* A symbol taken as written.
AsWritten(sym) == sym

\* fromSymbol.toUpperCase()
toUpperCase(sym) ==
    CASE sym = "usd" -> "USD"
      [] sym = "usdc" -> "USDC"
      [] sym = "Sol" -> "SOL"
      [] sym = "eth" -> "ETH"
      [] OTHER -> sym

\* What getRate may return: the quotes of TRX, ETH and SOL in USD.
RateTables ==
    [TRX : {Rounded(1, 9)}, ETH : {Number(2500)}, SOL : {Number(p) : p \in Prices}]

\* toUSDT[symbol]; a key the table does not have gives undefined, and the
\* arithmetic on undefined gives NaN.
toUSDT(rates, key) ==
    CASE key = "TRX" -> rates.TRX
      [] key = "ETH" -> rates.ETH
      [] key = "SOL" -> rates.SOL
      [] key \in {"USD", "USDT", "USDC"} -> Number(1)
      [] OTHER -> NaN

\* convert(amount, fromSymbol, toSymbol) once getRate has answered rates.
convertNumber(amount, fromSymbol, toSymbol, rates) ==
    LET amountInUSDT == Times(amount, toUSDT(rates, toUpperCase(fromSymbol)))
    IN Over(amountInUSDT, toUSDT(rates, toUpperCase(toSymbol)))

CallAmounts == {Number(1), Number(3), Number(100)}

\* A caller calls convert, which runs up to await getRate().
convertCalled(a, f, t) ==
    /\ cvStage = "idle"
    /\ cvStage' = "rates"
    /\ cvCall' = [amount |-> a, fromSymbol |-> f, toSymbol |-> t]
    /\ UNCHANGED <<cvRates, cvResult, cvBack>>
    /\ UNCHANGED notConvert

\* getRate answers and convert returns.
convertReturns(r) ==
    /\ cvStage = "rates"
    /\ cvRates' = r
    /\ cvResult' = convertNumber(cvCall.amount, cvCall.fromSymbol, cvCall.toSymbol, r)
    /\ cvStage' = "answered"
    /\ UNCHANGED <<cvCall, cvBack>>
    /\ UNCHANGED notConvert

\* The caller converts the result back, the oracle quoting the same rates.
convertBack ==
    /\ cvStage = "answered"
    /\ cvBack' = convertNumber(cvResult, cvCall.toSymbol, cvCall.fromSymbol, cvRates)
    /\ cvStage' = "back"
    /\ UNCHANGED <<cvCall, cvRates, cvResult>>
    /\ UNCHANGED notConvert

\* convert has not been called.
IdleConvertVars ==
    /\ cvStage = "idle"
    /\ cvCall = [amount |-> Number(1), fromSymbol |-> "USD", toSymbol |-> "USD"]
    /\ cvRates = CHOOSE r \in RateTables : TRUE
    /\ cvResult = NaN
    /\ cvBack = NaN

-----------------------------------------------------------------------------
(* TON wallet authentication: GET /challenge and POST /verify of            *)
(* api/deposits.ts.  Time is counted in minutes.                             *)

MaxClock == 4

CHALLENGE_EXPIRY == 2

Challenges == {"c1", "c2"}

Verifies == {"v1", "v2"}

\* The signature a request carries: an Ed25519 signature of the signing hash
\* of its message under the key of the claimed address, some other bytes, or
\* a string that starts with 'mock_signature_'.
Signatures == {"signed", "forged", "mock"}

\* ed25519.verify(signatureBytes, messageBytes, publicKeyBytes)
verifyTonSignature(sig) == sig = "signed"

\* const isValidSignature = isMockSignature || verifyTonSignature(...)
isValidSignature(sig) == sig = "mock" \/ verifyTonSignature(sig)

Expired(c) == clock - challengeStore[c] > CHALLENGE_EXPIRY

Without(store, gone) == [c \in DOMAIN store \ gone |-> store[c]]

tick ==
    /\ clock < MaxClock
    /\ clock' = clock + 1
    /\ UNCHANGED <<challengeStore, vpc, vreq, tokens, failures>>
    /\ UNCHANGED notAuth

\* GET /challenge: a fresh challenge is stored with its timestamp, and the
\* expired ones are deleted.
getChallenge(c) ==
    /\ c \in Challenges \ DOMAIN challengeStore
    /\ \A t \in DOMAIN tokens : tokens[t].challenge # c
    /\ LET stored == [d \in DOMAIN challengeStore \cup {c} |->
                         IF d = c THEN clock ELSE challengeStore[d]]
       IN challengeStore' =
              Without(stored, {d \in DOMAIN stored : clock - stored[d] > CHALLENGE_EXPIRY})
    /\ UNCHANGED <<clock, vpc, vreq, tokens, failures>>
    /\ UNCHANGED notAuth

\* POST /verify up to await getPublicKeyFromTonApi(address): the challenge is
\* looked up and its age tested; extractPublicKeyFromStateInit returns null.
verifyLookup(v, c, sig) ==
    /\ vpc[v] = "idle"
    /\ vreq' = [vreq EXCEPT ![v] = [message |-> c, signature |-> sig]]
    /\ IF c \notin DOMAIN challengeStore
       THEN /\ vpc' = [vpc EXCEPT ![v] = "400"]
            /\ UNCHANGED challengeStore
       ELSE IF Expired(c)
       THEN /\ vpc' = [vpc EXCEPT ![v] = "400"]
            /\ challengeStore' = Without(challengeStore, {c})
       ELSE /\ vpc' = [vpc EXCEPT ![v] = "key"]
            /\ UNCHANGED challengeStore
    /\ UNCHANGED <<clock, tokens, failures>>
    /\ UNCHANGED notAuth

\* The public key arrives: the signature is tested, the JWT is signed and
\* set as cookie, and the challenge is deleted.
verifySignature(v) ==
    /\ vpc[v] = "key"
    /\ IF isValidSignature(vreq[v].signature)
       THEN /\ tokens' = Append(tokens,
                             [challenge |-> vreq[v].message,
                              signature |-> vreq[v].signature,
                              age |-> IF vreq[v].message \in DOMAIN challengeStore
                                      THEN clock - challengeStore[vreq[v].message]
                                      ELSE 0])
            /\ challengeStore' = Without(challengeStore, {vreq[v].message})
            /\ vpc' = [vpc EXCEPT ![v] = "200"]
       ELSE /\ vpc' = [vpc EXCEPT ![v] = "400"]
            /\ UNCHANGED <<tokens, challengeStore>>
    /\ UNCHANGED <<clock, vreq, failures>>
    /\ UNCHANGED notAuth

\* getPublicKeyFromTonApi returns null: 'Unable to retrieve public key'.
verifyNoKey(v) ==
    /\ vpc[v] = "key"
    /\ failures < MaxFailures
    /\ failures' = failures + 1
    /\ vpc' = [vpc EXCEPT ![v] = "400"]
    /\ UNCHANGED <<challengeStore, clock, vreq, tokens>>
    /\ UNCHANGED notAuth

\* The router has been set up: no challenge, no request.
IdleAuthVars ==
    /\ challengeStore = <<>>
    /\ clock = 0
    /\ vpc = [v \in Verifies |-> "idle"]
    /\ vreq = [v \in Verifies |-> [message |-> "c1", signature |-> "forged"]]
    /\ tokens = <<>>

-----------------------------------------------------------------------------
(* The TronWeb instance of blockchain/tron.ts.  getTronWeb() creates one     *)
(* instance for the module and returns it to every caller; setPrivateKey     *)
(* writes its defaultPrivateKey, and trx.sendTransaction and the send of a   *)
(* contract method sign with the defaultPrivateKey they find when they are   *)
(* called.  transferToMain builds an instance of its own and is left out.    *)

KeyCalls == {"k1", "k2"}

Signed(tx, key) == [tx |-> tx, key |-> key]

\* withdrawTrx: setPrivateKey(MAIN_POOL_PK) and trx.sendTransaction(to, rawAmount)
\* in one go; the result is awaited.
withdrawTrxSigns(k) ==
    /\ kpc[k] = "idle"
    /\ defaultPrivateKey' = "pool"
    /\ signatures' = signatures \cup {Signed("withdrawTrx", "pool")}
    /\ kfn' = [kfn EXCEPT ![k] = "withdrawTrx"]
    /\ kpc' = [kpc EXCEPT ![k] = "send"]
    /\ UNCHANGED <<spc, failures>>
    /\ UNCHANGED notKey

\* withdrawTokenTron: setPrivateKey(MAIN_POOL_PK), then
\* await tronWebIns.contract().at(USDT_CONTRACT).
withdrawTokenTronSetsKey(k) ==
    /\ kpc[k] = "idle"
    /\ defaultPrivateKey' = "pool"
    /\ kfn' = [kfn EXCEPT ![k] = "withdrawTokenTron"]
    /\ kpc' = [kpc EXCEPT ![k] = "contract"]
    /\ UNCHANGED <<spc, signatures, failures>>
    /\ UNCHANGED notKey

\* The contract is there: contract.transfer(to, rawAmount).send(...) signs with
\* the key of the instance and is awaited.
withdrawTokenTronSigns(k) ==
    /\ kpc[k] = "contract"
    /\ signatures' = signatures \cup {Signed("withdrawTokenTron", defaultPrivateKey)}
    /\ kpc' = [kpc EXCEPT ![k] = "send"]
    /\ UNCHANGED <<defaultPrivateKey, kfn, spc, failures>>
    /\ UNCHANGED notKey

\* The submission of a withdrawal settles and the call ends.
tronWithdrawalEnds(k) ==
    /\ kpc[k] = "send"
    /\ kpc' = [kpc EXCEPT ![k] = "idle"]
    /\ UNCHANGED <<defaultPrivateKey, kfn, spc, signatures, failures>>
    /\ UNCHANGED notKey

\* checkBalances calls maybeSweepUserDeposit for a wallet with 10 USDT or more:
\* await tw.trx.getBalance(depositAddr).
maybeSweepUserDeposit ==
    /\ spc = "idle"
    /\ spc' = "getBalance"
    /\ UNCHANGED <<defaultPrivateKey, kpc, kfn, signatures, failures>>
    /\ UNCHANGED notKey

\* trxBalance < GAS_AMOUNT: setPrivateKey(MAIN_POOL_PK) and
\* trx.sendTransaction(depositAddr, GAS_AMOUNT) in one go, awaited together
\* with waitForConfirmation.
maybeSweepSignsTopUp ==
    /\ spc = "getBalance"
    /\ defaultPrivateKey' = "pool"
    /\ signatures' = signatures \cup {Signed("topup", "pool")}
    /\ spc' = "topup"
    /\ UNCHANGED <<kpc, kfn, failures>>
    /\ UNCHANGED notKey

\* With gas enough, or the top-up confirmed:
\* setPrivateKey(decryptPrivateKey(depositPk)), then
\* await tronWebIns.contract().at(USDT_CONTRACT).
maybeSweepSetsKey ==
    /\ spc \in {"getBalance", "topup"}
    /\ defaultPrivateKey' = "deposit"
    /\ spc' = "contract"
    /\ UNCHANGED <<kpc, kfn, signatures, failures>>
    /\ UNCHANGED notKey

\* contract2.transfer(MAIN_POOL_ADDRESS, balanceRaw).send(...) signs with the
\* key of the instance and is awaited.
maybeSweepSigns ==
    /\ spc = "contract"
    /\ signatures' = signatures \cup {Signed("sweep", defaultPrivateKey)}
    /\ spc' = "send"
    /\ UNCHANGED <<defaultPrivateKey, kpc, kfn, failures>>
    /\ UNCHANGED notKey

\* The sweep transfer settles; the rest of maybeSweepUserDeposit does not use
\* the instance.
maybeSweepEnds ==
    /\ spc = "send"
    /\ spc' = "idle"
    /\ UNCHANGED <<defaultPrivateKey, kpc, kfn, signatures, failures>>
    /\ UNCHANGED notKey

\* The module has been loaded: the instance does not exist yet.
IdleKeyVars ==
    /\ defaultPrivateKey = "none"
    /\ kpc = [k \in KeyCalls |-> "idle"]
    /\ kfn = [k \in KeyCalls |-> "withdrawTrx"]
    /\ spc = "idle"
    /\ signatures = {}

-----------------------------------------------------------------------------
(* solana-deposits.ts, processSolanaTransaction, with transactions that pay  *)
(* one or several monitored addresses.  pollForDeposits goes through the     *)
(* users in order and hands each recent transaction of the user's address to *)
(* processSolanaTransaction(signature, transaction, [user]).                 *)

PayeeUsers == {1, 2}

PayeeTxs == {"s1", "s2"}

Pair(t, u) == [txHash |-> t, userId |-> u]

\* The calls of one cycle, in the order of the two loops.
Calls2(pay, u) ==
    (IF u \in pay["s1"] THEN <<Pair("s1", u)>> ELSE <<>>) \o
    (IF u \in pay["s2"] THEN <<Pair("s2", u)>> ELSE <<>>)

CycleCalls(pay) == Calls2(pay, 1) \o Calls2(pay, 2)

\* Where the cycle goes after call i.
AfterCall(i) ==
    IF i < Len(CycleCalls(payees)) THEN [i |-> i + 1, st |-> "call"] ELSE [i |-> 0, st |-> "done"]

\* A cycle of pollForDeposits gets the users and their recent transactions.
pollForDepositsUsers ==
    /\ ppc.st \in {"idle", "done"}
    /\ ppc' = AfterCall(0)
    /\ UNCHANGED <<payees, depositRows, credited, failures>>
    /\ UNCHANGED notPayee

\* processSolanaTransaction(signature, transaction, [user]):
\* isSolTransferToAddress finds the transfer to the user's address, and
\* depositExists(signature) is awaited.
processSolanaTransaction ==
    /\ ppc.st = "call"
    /\ ppc' = [ppc EXCEPT !.st = "exists"]
    /\ UNCHANGED <<payees, depositRows, credited, failures>>
    /\ UNCHANGED notPayee

\* depositExists(signature) answers: findFirst({ where: { txHash } }); with a
\* record of that txHash the transfer is skipped, else createDeposit is awaited.
processSolanaTransactionExists ==
    /\ ppc.st = "exists"
    /\ LET t == CycleCalls(payees)[ppc.i].txHash
       IN ppc' = IF \E r \in depositRows : r.txHash = t
                 THEN AfterCall(ppc.i)
                 ELSE [ppc EXCEPT !.st = "create"]
    /\ UNCHANGED <<payees, depositRows, credited, failures>>
    /\ UNCHANGED notPayee

\* createDeposit({ userId, txHash: signature, ... }) answers;
\* updateDepositStatus(signature, 'confirmed', 1) is awaited.
processSolanaTransactionCreate ==
    /\ ppc.st = "create"
    /\ depositRows' = depositRows \cup {CycleCalls(payees)[ppc.i]}
    /\ ppc' = [ppc EXCEPT !.st = "status"]
    /\ UNCHANGED <<payees, credited, failures>>
    /\ UNCHANGED notPayee

\* updateDepositStatus answers; updateUserBalanceAfterDeposit is awaited.
processSolanaTransactionStatus ==
    /\ ppc.st = "status"
    /\ ppc' = [ppc EXCEPT !.st = "credit"]
    /\ UNCHANGED <<payees, depositRows, credited, failures>>
    /\ UNCHANGED notPayee

\* updateUserBalanceAfterDeposit(userId, 'SOL', amount) answers: the user is
\* credited, and the loops go on.
processSolanaTransactionCredit ==
    /\ ppc.st = "credit"
    /\ credited' = credited \cup {CycleCalls(payees)[ppc.i]}
    /\ ppc' = AfterCall(ppc.i)
    /\ UNCHANGED <<payees, depositRows, failures>>
    /\ UNCHANGED notPayee

\* The chain holds transactions paying pay, and nothing has been scanned.
PayeeVarsAtStart(pay) ==
    /\ payees = pay
    /\ depositRows = {}
    /\ credited = {}
    /\ ppc = [i |-> 0, st |-> "idle"]

IdlePayeeVars == PayeeVarsAtStart([t \in PayeeTxs |-> {1}])

-----------------------------------------------------------------------------
(* depositListeners/ethereum.ts, monitorEthereumAddress for one monitored    *)
(* address: the window of blocks a cycle asks the logs of.  Blocks are       *)
(* counted in units of 500, so that a request covers fromBlock..fromBlock+2. *)

MaxEthHead == 4

BLOCKS_PER_REQUEST == 2

EthTxs == {"e1", "e2"}

Min(a, b) == IF a <= b THEN a ELSE b

\* prisma.deposit.findFirst({ ..., orderBy: { blockNumber: 'desc' } }):
\* fromBlock = lastDeposit ? Number(lastDeposit.blockNumber) + 1 : 0
FromLastDeposit(recorded, blockOf) ==
    IF recorded = {} THEN 0
    ELSE 1 + CHOOSE b \in {blockOf[x] : x \in recorded} :
                 \A x \in recorded : blockOf[x] <= b

\* toBlock = Math.min(currentBlock, fromBlock + 1000)
ToBlock(from, current) == Min(current, from + BLOCKS_PER_REQUEST)

\* The chain grows by a block.
ethNewBlock ==
    /\ ethHead < MaxEthHead
    /\ ethHead' = ethHead + 1
    /\ UNCHANGED <<ethTxBlock, ethRecorded, scannedBlocks, lpc, lfrom, ltodo, failures>>
    /\ UNCHANGED notWindow

\* monitorEthereumAddress, from the interval timer: the latest Deposit Record
\* of the address gives fromBlock; provider.getBlockNumber() is awaited.
monitorEthereumAddress ==
    /\ lpc = "idle"
    /\ lfrom' = FromLastDeposit(ethRecorded, ethTxBlock)
    /\ lpc' = "current"
    /\ UNCHANGED <<ethHead, ethTxBlock, ethRecorded, scannedBlocks, ltodo, failures>>
    /\ UNCHANGED notWindow

\* getBlockNumber answers: if (fromBlock >= currentBlock) return; else
\* getRecentTransactions(address, fromBlock) is awaited.
monitorEthereumAddressCurrent ==
    /\ lpc = "current"
    /\ lpc' = IF lfrom >= ethHead THEN "idle" ELSE "logs"
    /\ UNCHANGED <<ethHead, ethTxBlock, ethRecorded, scannedBlocks, lfrom, ltodo, failures>>
    /\ UNCHANGED notWindow

\* getRecentTransactions answers with the transactions of
\* fromBlock..toBlock; those with a Deposit Record are skipped
\* (isTransactionProcessed), the others go to processDeposit one by one.
getRecentTransactions ==
    /\ lpc = "logs"
    /\ LET to == ToBlock(lfrom, ethHead)
       IN /\ scannedBlocks' = scannedBlocks \cup (lfrom..to)
          /\ ltodo' = {x \in EthTxs \ ethRecorded : ethTxBlock[x] \in lfrom..to}
    /\ lpc' = "process"
    /\ UNCHANGED <<ethHead, ethTxBlock, ethRecorded, lfrom, failures>>
    /\ UNCHANGED notWindow

\* processDeposit(userId, txHash, ..., transaction.blockNumber, 'ETH') writes
\* the Deposit Record and the credit.
processDepositEth(x) ==
    /\ lpc = "process"
    /\ x \in ltodo
    /\ ethRecorded' = ethRecorded \cup {x}
    /\ ltodo' = ltodo \ {x}
    /\ UNCHANGED <<ethHead, ethTxBlock, scannedBlocks, lpc, lfrom, failures>>
    /\ UNCHANGED notWindow

\* processDeposit throws (store error): the catch inside the loop logs it and
\* the loop goes on with the next transaction.
processDepositEthFails(x) ==
    /\ lpc = "process"
    /\ x \in ltodo
    /\ failures < MaxFailures
    /\ failures' = failures + 1
    /\ ltodo' = ltodo \ {x}
    /\ UNCHANGED <<ethHead, ethTxBlock, ethRecorded, scannedBlocks, lpc, lfrom>>
    /\ UNCHANGED notWindow

\* The loop over the transactions is through: the cycle ends.
monitorEthereumAddressEnds ==
    /\ lpc = "process"
    /\ ltodo = {}
    /\ lpc' = "idle"
    /\ UNCHANGED <<ethHead, ethTxBlock, ethRecorded, scannedBlocks, lfrom, ltodo, failures>>
    /\ UNCHANGED notWindow

\* The listener has been loaded; the transfers to the address sit in the
\* blocks blockOf and no block has been asked for.
WindowVarsAtStart(blockOf) ==
    /\ ethHead = 1
    /\ ethTxBlock = blockOf
    /\ ethRecorded = {}
    /\ scannedBlocks = {}
    /\ lpc = "idle"
    /\ lfrom = 0
    /\ ltodo = {}

IdleWindowVars == WindowVarsAtStart([x \in EthTxs |-> 1])

-----------------------------------------------------------------------------
(* Specification of the deposit pipelines *)

InitDepositVars ==
    /\ deposits = <<>>
    /\ balance = <<>>
    /\ credits = [t \in TxIds |-> 0]
    /\ processedTransactions = {}
    /\ dpc = [p \in DepositProcs |-> "idle"]
    /\ dtx = [p \in DepositProcs |-> NoTx]
    /\ sawRow = [p \in DepositProcs |-> FALSE]
    /\ failures = 0

InitDeposit == InitDepositVars /\ IdleWithdrawVars /\ IdleScanVars /\ IdleOracleVars /\ IdleBlockVars /\ IdleTronVars /\ IdleCanVars /\ IdleConvertVars /\ IdleAuthVars /\ IdleKeyVars /\ IdlePayeeVars /\ IdleNetworkVars /\ IdleWindowVars

DepositStep(p) ==
    \/ StartCycle(p)
    \/ EndCycle(p)
    \/ \E t \in TxIds : isTransactionProcessed(p, t)
    \/ \E t \in TxIds : checkTronDepositsForAddress(p, t)
    \/ processDepositCreate(p)
    \/ processDepositCredit(p)
    \/ processDepositMark(p)
    \/ \E t \in TxIds : depositExists(p, t)
    \/ createDeposit(p)
    \/ updateDepositStatus(p)
    \/ updateUserBalanceFind(p)
    \/ updateUserBalanceWrite(p)
    \/ StoreFailure(p)

NextDeposit ==
    \/ \E p \in DepositProcs : DepositStep(p)
    \/ Restart

SpecDeposit == InitDeposit /\ [][NextDeposit]_vars

\* A cycle hands every transaction of the window it has not seen to the
\* pipeline.
Examine(p, t) ==
    \/ isTransactionProcessed(p, t)
    \/ checkTronDepositsForAddress(p, t)
    \/ depositExists(p, t)

\* The scheduler of the Node process runs every task that can run, the timers
\* keep firing, every cycle examines every transaction of its window, and the
\* store answers once its failures have ceased.
FairSpecDeposit ==
    /\ InitDeposit
    /\ [][NextDeposit]_vars
    /\ \A p \in DepositProcs : WF_vars(DepositStep(p))
    /\ \A p \in DepositProcs : \A t \in TxIds : SF_vars(Examine(p, t))

-----------------------------------------------------------------------------
(* Claims about the deposit pipelines *)

RECURSIVE SumCredits(_)
SumCredits(S) ==
    IF S = {} THEN 0
    ELSE LET t == CHOOSE x \in S : TRUE
         IN credits[t] * TxAmount(t) + SumCredits(S \ {t})

\* A task is between handing t to the deposit processor and the end of that call.
InProcess(t) == \E p \in DepositProcs : dtx[p] = t

C2_AllOrNothing ==
    \A t \in TxIds : ~InProcess(t) => ((RecordCount(t) > 0) <=> (credits[t] > 0))

\* C3: with polling going on and failures ceasing, every transfer in the
\* scanned window is eventually credited.
C3_NoLostDeposit == \A t \in TxIds : <>(credits[t] > 0)

C20_DuplicateSwallowed ==
    [][\A p \in ListenerProcs \cup ManualProcs :
           (processDepositCreate(p) /\ RecordCount(dtx[p]) > 0) =>
               (credits' = credits /\ dpc'[p] = "scan")]_vars

-----------------------------------------------------------------------------
(* Specification of the withdrawal engine *)

InitWithdraw == InitDepositVars /\ IdleWithdrawVars /\ IdleScanVars /\ IdleOracleVars /\ IdleBlockVars /\ IdleTronVars /\ IdleCanVars /\ IdleConvertVars /\ IdleAuthVars /\ IdleKeyVars /\ IdlePayeeVars /\ IdleNetworkVars /\ IdleWindowVars

WithdrawStep(w) ==
    \/ \E c \in SolanaCurrencies : \E a \in Amounts(c) : \E ok \in BOOLEAN :
           withdrawSolanaStart(w, c, a, ok)
    \/ \E a \in Amounts("TRX") : \E ok \in BOOLEAN : withdrawTrxStart(w, a, ok)
    \/ \E a \in Amounts("USDT") : \E ok \in BOOLEAN : withdrawTokenTronStart(w, a, ok)
    \/ withdrawTokenTronSend(w)
    \/ readPoolBalance(w)
    \/ getRecipientAccount(w)
    \/ createAccountSettles(w)
    \/ transferSettles(w)
    \/ saveTransaction(w)
    \/ minusBalance(w)
    \/ WithdrawFailure(w)

NextWithdraw == \E w \in Calls : WithdrawStep(w)

SpecWithdraw == InitWithdraw /\ [][NextWithdraw]_vars

-----------------------------------------------------------------------------
(* Claims about the withdrawal engine *)

Saved(w) == \E r \in transactions : r.call = w

\* C4: reserve preservation.  After every withdrawSol / withdrawUsdc that moved
\* funds, under any interleaving, the pool still holds at least the minimum
\* reserve of that currency.
C4_ReservePreserved ==
    \A w \in Calls :
        (wcur[w] \in SolanaCurrencies /\ received[w] > 0)
            => pool[wcur[w]] >= MinimumReserve(wcur[w])

\* C5: a withdrawal whose pool balance read minus (amount + fee) is below the
\* minimum reserve is rejected for insufficient liquidity and has done nothing:
\* no transfer and no token-account creation submitted, no Transaction record,
\* no debit; and a call rejected for liquidity is one that was short.
C5_RejectedLeavesUnchanged ==
    \A w \in Calls :
        LET c == wcur[w]
            short == wread[w] - (wamt[w] + Fee(c)) < MinimumReserve(c)
            untouched == /\ received[w] = 0
                         /\ ~created[w]
                         /\ ~Saved(w)
                         /\ debit[w] = 0
        IN /\ (c \in SolanaCurrencies /\ wpc[w] \notin {"idle", "read", "rejected_address"} /\ short)
                  => (wpc[w] \in {"rejected_liquidity", "failed"} /\ untouched)
           /\ wpc[w] = "rejected_liquidity" => (short /\ untouched)

C5_Witness ==
    \E w \in Calls :
        /\ wpc[w] = "rejected_liquidity"
        /\ wcur[w] = "USDC"
        /\ wamt[w] = 100
        /\ wread[w] = 90
        /\ pool["USDC"] = 90

\* C6: on a successful withdrawal of amount, the recipient receives exactly
\* amount on chain; the fee is not added on top.
C6_RecipientGetsAmount ==
    \A w \in Calls :
        (wcur[w] \in SolanaCurrencies /\ received[w] > 0) => received[w] = wamt[w]

\* C7: the ledger debit is tied to submission success.  Once a withdrawal has
\* ended, either the chain moved nothing and neither the Transaction record
\* nor the debit exists, or it moved the funds and both exist.
C7_DebitTiedToSubmission ==
    \A w \in Calls :
        wpc[w] \in Terminal =>
            IF received[w] > 0
            THEN Saved(w) /\ debit[w] > 0
            ELSE ~Saved(w) /\ debit[w] = 0

\* C8: no negative balance.  The user's Balance Record never goes below zero,
\* and no withdrawSol / withdrawUsdc whose amount the balance does not cover
\* has a chain submission under way or settled.
C8_NoNegativeBalance ==
    /\ \A c \in Currencies : userBalance[c] >= 0
    /\ \A w \in Calls :
           (wcur[w] \in SolanaCurrencies /\ wpc[w] \in {"createacct", "send", "save", "debit"})
               => userBalance[wcur[w]] >= wamt[w]

\* C9: pool-signed submissions are serialized per chain: never two of them in
\* flight at once on the same chain.
C9_Serialized ==
    \A w1 \in Calls : \A w2 \in Calls \ {w1} :
        ~(InFlight(w1) /\ InFlight(w2) /\ Chain(wcur[w1]) = Chain(wcur[w2]))

\* C13: every withdrawal entry point rejects a malformed destination address
\* before any network call, and the rejection changes nothing: no chain
\* request, no Transaction record, no debit.
C13_InvalidAddressRejected ==
    \A w \in Calls :
        (wpc[w] # "idle" /\ ~wvalid[w]) =>
            /\ wpc[w] = "rejected_address"
            /\ ~NetworkCall(w)
            /\ received[w] = 0
            /\ ~created[w]
            /\ ~Saved(w)
            /\ debit[w] = 0

\* C31: withdrawUsdc submits the token transfer only when the recipient's
\* associated token account is there: an absent account is created first and
\* the creation confirmed; and the creation is submitted only by a call that
\* has passed the liquidity and reserve checks.
C31_AccountBeforeTransfer ==
    \A w \in Calls :
        /\ (wcur[w] = "USDC" /\ (wpc[w] = "send" \/ received[w] > 0)) => ataExists
        /\ wpc[w] = "createacct" => received[w] = 0
        /\ created[w] =>
               /\ wcur[w] = "USDC"
               /\ HasLiquidity("USDC", wread[w], wamt[w])

\* A call found no token account, created it and has its transfer submitted.
C31_Witness ==
    \E w \in Calls :
        /\ wcur[w] = "USDC"
        /\ created[w]
        /\ wpc[w] = "send"
        /\ ataExists

\* C35: a withdrawal call that ends by throwing to its caller has moved no
\* funds out of the main pool: whenever the chain moved the transfer, the call
\* returns.
C35_ThrowMeansNothingSent ==
    \A w \in Calls :
        wpc[w] \in {"rejected_address", "rejected_liquidity", "failed"} => received[w] = 0

\* C36: for every withdrawal the amount recorded in the ledger (the negated
\* amount of the Transaction record, and the debit of the balance) equals the
\* amount the chain moved to the recipient.
C36_LedgerEqualsChain ==
    \A w \in Calls :
        /\ \A r \in transactions : r.call = w => 0 - r.amount = received[w]
        /\ debit[w] > 0 => debit[w] = received[w]

-----------------------------------------------------------------------------
(* Specification of the feasibility answer *)

InitCan ==
    InitDepositVars /\ IdleWithdrawVars /\ IdleScanVars /\ IdleOracleVars /\ IdleBlockVars /\ IdleTronVars /\ IdleCanVars /\ IdleConvertVars /\ IdleAuthVars /\ IdleKeyVars /\ IdlePayeeVars /\ IdleNetworkVars /\ IdleWindowVars

NextCan ==
    \/ \E c \in SolanaCurrencies : \E b \in PoolBalances(c) : poolMoves(c, b)
    \/ \E c \in SolanaCurrencies : \E a \in Amounts(c) : canWithdrawStart(c, a)
    \/ canWithdrawReturns
    \/ canWithdrawUsdcNoAccount
    \/ canWithdrawReadFails

SpecCan == InitCan /\ [][NextCan]_vars

\* C23: the answer is canWithdraw = true exactly when the balance read less
\* amount and fee leaves the minimum reserve; otherwise, and when the balance
\* could not be read, it is canWithdraw = false with a reason; and it is the
\* answer withdrawSol / withdrawUsdc give to the same balance.
C23_FeasibilityAgrees ==
    \A i \in DOMAIN canAnswer :
        LET ans == canAnswer[i]
        IN /\ ans.canWithdraw <=> ans.reason = NoReason
           /\ ans.read = <<>> => ~ans.canWithdraw
           /\ \A j \in DOMAIN ans.read :
                  /\ ans.canWithdraw <=>
                         ans.read[j] - (ans.amt + Fee(ans.cur)) >= MinimumReserve(ans.cur)
                  /\ ans.canWithdraw <=> HasLiquidity(ans.cur, ans.read[j], ans.amt)

\* An answer "yes" that leaves exactly the minimum reserve: the balance read
\* is amount + fee + reserve.
C23_Witness ==
    /\ canpc = "idle"
    /\ \E i \in DOMAIN canAnswer :
           /\ canAnswer[i].canWithdraw
           /\ canAnswer[i].read =
                  <<TotalAmount(canAnswer[i].cur, canAnswer[i].amt) + MinimumReserve(canAnswer[i].cur)>>

-----------------------------------------------------------------------------
(* Specification of the scan scheduling *)

InitScan == InitDepositVars /\ IdleWithdrawVars /\ IdleScanVars /\ IdleOracleVars /\ IdleBlockVars /\ IdleTronVars /\ IdleCanVars /\ IdleConvertVars /\ IdleAuthVars /\ IdleKeyVars /\ IdlePayeeVars /\ IdleNetworkVars /\ IdleWindowVars

NextScan ==
    \/ pollForDeposits
    \/ pollForDepositsReturns
    \/ monitorStart
    \/ \E n \in Networks : monitorStartFails(n)
    \/ monitorStop
    \/ restartNetwork
    \/ restartTimeoutFires
    \/ serviceStart
    \/ serviceStop
    \/ \E byTimer \in BOOLEAN : monitorSolanaDeposits(byTimer)
    \/ monitorSolanaDepositsReturns

SpecScan == InitScan /\ [][NextScan]_vars

\* C10: at most one deposit scan is in flight per chain at any time, however
\* the scan was started (interval timer, immediate scan at start, runOnce,
\* after a stop, a restartNetwork or a stop()/start() sequence).
C10_OneScanInFlight ==
    /\ pollScans <= 1
    /\ listenerScans <= 1

\* C29: when the interval timer of the poller fires while a cycle is still
\* running, the call is skipped: it starts no cycle and leaves the guard flag
\* set for the running cycle.
C29_SkippedNotQueued ==
    [][(pollForDeposits /\ pollScans > 0) =>
           (pollScans' = pollScans /\ isPolling /\ isPolling')]_vars

\* C32: the flag isPolling is released on every exit path of a cycle: when a
\* cycle ends the flag is clear, and the flag is never set with no cycle
\* running, so that the next timer firing starts a scan.
C32_FlagReleased ==
    [][/\ pollScans' < pollScans => ~isPolling'
       /\ isPolling' => pollScans' > 0]_vars

\* The first cycle has ended, the interval timer is armed and the flag is clear.
C32_Witness ==
    /\ pollTimers > 0
    /\ pollScans = 0
    /\ ~isPolling

\* C37: once DepositMonitoringService.stop() has returned no interval timer of
\* the listeners is armed, so that no scan is started until start() is called
\* again; and while the service runs, after any sequence of stop() and start(),
\* exactly one timer per chain is armed.
C37_StopDisarmsTimers ==
    listenerTimers = IF serviceIsRunning THEN 1 ELSE 0

\* C38: the state of DepositMonitorService is consistent after start() or
\* stop() has returned or thrown: a per-network flag is true only if isRunning
\* is true, also when start() failed after some monitors were started.
C38_FlagsFollowIsRunning ==
    \A n \in Networks : networks[n] => monitorIsRunning

-----------------------------------------------------------------------------
(* Specification of the pipelines with their oracle calls *)

InitOracle == InitDepositVars /\ IdleWithdrawVars /\ IdleScanVars /\ IdleOracleVars /\ IdleBlockVars /\ IdleTronVars /\ IdleCanVars /\ IdleConvertVars /\ IdleAuthVars /\ IdleKeyVars /\ IdlePayeeVars /\ IdleNetworkVars /\ IdleWindowVars

OracleStep(p) ==
    \/ StartCycle(p)
    \/ EndCycle(p)
    \/ \E t \in TxIds : isTransactionProcessed(p, t)
    \/ \E t \in TxIds : depositExists(p, t)
    \/ processDepositConvertRate(p)
    \/ processDepositConvertArrival(p)
    \/ createDepositConvert(p)
    \/ depositCreateQuoted(p)
    \/ processDepositCredit(p)
    \/ processDepositMark(p)
    \/ updateDepositStatus(p)
    \/ updateUserBalanceFind(p)
    \/ updateUserBalanceWrite(p)

NextOracle ==
    \/ \E p \in QuoteProcs : OracleStep(p)
    \/ oracleMoves

SpecOracle == InitOracle /\ [][NextOracle]_vars

Quoted(t) == RecordCount(t) > 0

\* C11: oracle degradation.  When an oracle call failed while a deposit was
\* processed, its Deposit Record carries the face amount with rate = null and
\* realArrival = null.
C11_OracleDegradation ==
    \A t \in TxIds :
        (oracleFailed[t] /\ Quoted(t)) =>
            /\ quotes[t].rate = Null
            /\ quotes[t].realArrival = Null
            /\ \A i \in RecordsOf(t) : deposits[i].amount = TxAmount(t)

\* C12: when the oracle answered, the Deposit Record has realArrival equal to
\* amount x rate, whatever the price did between the oracle calls.
C12_RateConsistent ==
    \A t \in TxIds :
        (~oracleFailed[t] /\ Quoted(t)) =>
            /\ quotes[t].rate # Null
            /\ quotes[t].realArrival # Null
            /\ quotes[t].realArrival[1] = TxAmount(t) * quotes[t].rate[1]

-----------------------------------------------------------------------------
(* Specification of the block-range scan *)

InitBlocks ==
    InitDepositVars /\ IdleWithdrawVars /\ IdleScanVars /\ IdleOracleVars /\ IdleBlockVars /\ IdleTronVars /\ IdleCanVars /\ IdleConvertVars /\ IdleAuthVars /\ IdleKeyVars /\ IdlePayeeVars /\ IdleNetworkVars /\ IdleWindowVars

NextBlocks ==
    \/ newBlock
    \/ checkRecentBlocksForDeposits
    \/ \E a \in EthAddresses : getRecentTransactionsForAddress(a)
    \/ checkRecentBlocksEnd
    \/ getBlockNumberFails

SpecBlocks == InitBlocks /\ [][NextBlocks]_vars

\* C14: a failed read of an address's transfers is not taken for "nothing
\* found": the high-water mark never passes a block whose read failed, so
\* every block up to lastProcessedBlock has been read for every address.
C14_MarkNotPastFailedRead ==
    \A a \in EthAddresses : \A b \in 1 .. lastProcessedBlock : b \in logsRead[a]

-----------------------------------------------------------------------------
(* Specification of the ledger: deposit pipelines and the admin endpoint *)

LedgerProcs == {"L1", "P1"}

InitLedger ==
    InitDepositVars /\ IdleWithdrawVars /\ IdleScanVars /\ IdleOracleVars /\ IdleBlockVars /\ IdleTronVars /\ IdleCanVars /\ IdleConvertVars /\ IdleAuthVars /\ IdleKeyVars /\ IdlePayeeVars /\ IdleNetworkVars /\ IdleWindowVars

LedgerStep(p) ==
    \/ StartCycle(p)
    \/ EndCycle(p)
    \/ \E t \in TxIds : isTransactionProcessed(p, t)
    \/ processDepositCreate(p)
    \/ processDepositCredit(p)
    \/ processDepositMark(p)
    \/ \E t \in TxIds : depositExists(p, t)
    \/ createDeposit(p)
    \/ updateDepositStatus(p)
    \/ updateUserBalanceFind(p)
    \/ updateUserBalanceWrite(p)

NextLedger ==
    \/ \E p \in LedgerProcs : LedgerStep(p)
    \/ \E i \in 1 .. Cardinality(TxIds) : \E st \in {"pending", "confirmed", "failed"} :
           adminSetStatus(i, st)

SpecLedger == InitLedger /\ [][NextLedger]_vars

RECURSIVE ConfirmedSum(_)
ConfirmedSum(n) ==
    IF n = 0 THEN 0
    ELSE (IF deposits[n].status = "confirmed" THEN deposits[n].amount ELSE 0)
         + ConfirmedSum(n - 1)

Quiescent == \A p \in DepositProcs : dpc[p] \in {"idle", "scan"}

\* C15: ledger invariant.  Whenever no deposit is being processed, the Balance
\* Record equals the sum of the confirmed deposits of the pair (no withdrawal
\* is made in this specification, so the debits are zero).
C15_LedgerInvariant ==
    Quiescent => BalanceValue = ConfirmedSum(Len(deposits))

\* C16: balance upsert.  There is at most one Balance row of the pair, and no
\* credit is lost to the find-then-create sequence: every deposit whose
\* processing has ended (no store failure occurs in this specification) has
\* been credited to that row.
C16_UpsertKeepsCredits ==
    /\ Len(balance) <= 1
    /\ \A t \in TxIds : (RecordCount(t) > 0 /\ ~InProcess(t)) => credits[t] = 1

\* C22: the status of a Deposit Record changes only from pending, to confirmed
\* or to failed, whether updateDepositStatus or the admin endpoint writes it,
\* and no Deposit Record is ever removed.
C22_StatusLifecycle ==
    [][\A i \in DOMAIN deposits :
           /\ i \in DOMAIN deposits'
           /\ deposits'[i].txHash = deposits[i].txHash
           /\ deposits'[i].status # deposits[i].status => deposits[i].status = "pending"]_vars


-----------------------------------------------------------------------------
(* Specification of the Tron observer and its sweeps *)

InitSweep ==
    /\ InitDepositVars /\ IdleWithdrawVars /\ IdleScanVars /\ IdleOracleVars /\ IdleBlockVars
    /\ IdleCanVars /\ IdleConvertVars /\ IdleAuthVars /\ IdleKeyVars /\ IdlePayeeVars /\ IdleNetworkVars /\ IdleWindowVars
    /\ \E r \in TrxResidues : TronVarsAtStart(r)

SweepStep ==
    \/ loadWallets
    \/ \E b \in TronPolls : pollBlocks(b)
    \/ \E b \in TronPolls : pollBlocksHead(b)
    \/ \E b \in TronPolls : pollBlocksBlock(b)
    \/ \E i \in 1 .. MaxSweeps : transferToMainSend(i)
    \/ \E i \in 1 .. MaxSweeps : transferToMainConvert(i)
    \/ \E i \in 1 .. MaxSweeps : transferToMainSave(i)
    \/ \E i \in 1 .. MaxSweeps : transferToMainTop(i)
    \/ checkBalances
    \/ checkBalancesRead
    \/ maybeSweepGas
    \/ maybeSweepTopUp
    \/ maybeSweepConfirmed
    \/ maybeSweepTransfer
    \/ maybeSweepSave
    \/ maybeSweepTop

NextSweep ==
    \/ SweepStep
    \/ newTronBlock
    \/ \E b \in TronPolls : pollBlocksFails(b)
    \/ \E i \in 1 .. MaxSweeps : transferToMainFails(i)
    \/ checkBalancesFails

SpecSweep == InitSweep /\ [][NextSweep]_vars

\* Every call that is awaited answers in the end, and the timers keep firing;
\* nothing obliges a call to fail or the chain to grow.
FairSpecSweep ==
    /\ SpecSweep
    /\ WF_vars(loadWallets)
    /\ \A b \in TronPolls :
           WF_vars(pollBlocks(b)) /\ WF_vars(pollBlocksHead(b)) /\ WF_vars(pollBlocksBlock(b))
    /\ \A i \in 1 .. MaxSweeps :
           /\ WF_vars(transferToMainSend(i)) /\ WF_vars(transferToMainConvert(i))
           /\ WF_vars(transferToMainSave(i)) /\ WF_vars(transferToMainTop(i))
    /\ WF_vars(checkBalances) /\ WF_vars(checkBalancesRead) /\ WF_vars(maybeSweepGas)
    /\ WF_vars(maybeSweepTopUp) /\ WF_vars(maybeSweepConfirmed)
    /\ WF_vars(maybeSweepTransfer) /\ WF_vars(maybeSweepSave) /\ WF_vars(maybeSweepTop)

\* The transferToMain tasks of transfer x whose transfer to the pool went
\* through, and those that credited the user.
SentFor(x) == {i \in DOMAIN sweeps : sweeps[i].tx = x /\ sweeps[i].sent}

CreditedFor(x) == {i \in DOMAIN sweeps : sweeps[i].tx = x /\ sweeps[i].pc = "done"}

\* C17: one incoming TRX transfer leads to at most one sweep to the main pool
\* and to at most one ledger credit, whatever the interleaving of the
\* pollBlocks runs and whatever run ends early and reads the blocks again.
C17_OneSweepPerTransfer ==
    \A x \in TronTxs : Cardinality(SentFor(x)) <= 1 /\ Cardinality(CreditedFor(x)) <= 1

\* A TRX sweep has failed and the address still holds more than 5 TRX; a USDT
\* sweep is due when the address holds the threshold and no check is running.
TrxSweepFailed ==
    /\ \E i \in DOMAIN sweeps : sweeps[i].pc = "failed" /\ ~sweeps[i].sent
    /\ addrTrx > 50

TrxSweptAndCredited == \E i \in DOMAIN sweeps : sweeps[i].sent /\ sweeps[i].pc = "done"

UsdtSweepDue == cpc = "idle" /\ addrUsdt >= MIN_SWEEP_USDT

UsdtSwept == usdtSweep.sent > 0

\* C18: a failed sweep, of TRX or of USDT, is tried again on a later cycle:
\* while the address holds the balance, the funds are in the end swept and
\* credited.
C18_FailedSweepRetried ==
    /\ TrxSweepFailed ~> TrxSweptAndCredited
    /\ UsdtSweepDue ~> UsdtSwept

\* C19: every sweep whose transfer to the main pool went through is recorded
\* and credits the user with the USD value of the amount that was swept, also
\* when the oracle or the store fails after the transfer.
C19_SweptIsCredited ==
    /\ \A i \in DOMAIN sweeps :
           (sweeps[i].sent /\ sweeps[i].pc \in {"done", "failed"}) =>
               /\ sweeps[i].saved
               /\ sweeps[i].credited = convert(AmountToSend(sweeps[i].tx), "TRX", "USDT", price)
    /\ cpc = "idle" =>
           /\ usdtSweep.saved = usdtSweep.sent
           /\ usdtSweep.credited = usdtSweep.sent

\* C30: USDT sweep ordering.  With less than MIN_SWEEP_USDT on the deposit
\* address the run ends without a transaction.  The token transfer is
\* submitted only from a run that found GAS_AMOUNT of TRX on the address or
\* that submitted the gas top-up and got its confirmation; a run whose
\* confirmation wait fails ends without a token transfer and without a credit.
C30_SweepOrdering ==
    [][/\ (cpc = "balanceOf" /\ addrUsdt < MIN_SWEEP_USDT) =>
              (cpc' \in {"balanceOf", "idle"} /\ usdtSweep' = usdtSweep /\ addrUsdt' = addrUsdt)
       /\ (cpc = "gas" /\ addrTrx < GAS_AMOUNT) => cpc' \in {"gas", "topup", "idle"}
       /\ (cpc = "topup") => cpc' \in {"topup", "confirm", "idle"}
       /\ (cpc' = "transfer" /\ cpc # "transfer") =>
              (cpc = "confirm" \/ (cpc = "gas" /\ addrTrx >= GAS_AMOUNT))
       /\ (usdtSweep'.sent # usdtSweep.sent) => (cpc = "transfer" /\ craw >= MIN_SWEEP_USDT)
       /\ (usdtSweep'.credited # usdtSweep.credited) => cpc = "top"
       /\ (cpc = "confirm" /\ cpc' = "idle") =>
              (usdtSweep' = usdtSweep /\ addrUsdt' = addrUsdt)]_vars

\* The deposit address was short of gas, the top-up was confirmed and the
\* token transfer has been sent.
C30_Witness ==
    /\ cpc = "save"
    /\ usdtSweep.sent = MIN_SWEEP_USDT
    /\ addrTrx < 2 * GAS_AMOUNT
    /\ addrTrx >= GAS_AMOUNT

\* C40: lastBlockNumber never decreases, and a pollBlocks run reads a block,
\* and so moves lastBlockNumber past it, only while the wallets list is loaded:
\* no block's transfers are matched against the empty list of module load.
C40_MarkAfterMatch ==
    [][/\ lastBlockNumber' >= lastBlockNumber
       /\ \A b \in TronPolls :
              (tpc[b] = "block" /\ tbn'[b] # tbn[b] /\ failures' = failures)
                  => wallets]_vars

\* C21: an error met while a cycle scans never stops the cycle: a pollBlocks
\* run that has blocks to read ends only by reading the last of them, without
\* a call of its own having failed.
C21_ScanIsolation ==
    [][\A b \in TronPolls :
           (tpc[b] = "block" /\ tpc'[b] = "idle") =>
               (tbn[b] = thead[b] /\ failures' = failures)]_vars


-----------------------------------------------------------------------------
(* Specification of convert on numbers *)

InitConvert ==
    InitDepositVars /\ IdleWithdrawVars /\ IdleScanVars /\ IdleOracleVars /\ IdleBlockVars /\ IdleTronVars /\ IdleCanVars /\ IdleConvertVars /\ IdleAuthVars /\ IdleKeyVars /\ IdlePayeeVars /\ IdleNetworkVars /\ IdleWindowVars

NextConvert ==
    \/ \E a \in CallAmounts : \E f, t \in Spellings : convertCalled(a, f, t)
    \/ \E r \in RateTables : convertReturns(r)
    \/ convertBack

SpecConvert == InitConvert /\ [][NextConvert]_vars

\* Two spellings of one symbol, and the symbols worth one USD.
SameSymbol(s1, s2) ==
    \E letters \in {{"USD", "usd"}, {"USDC", "usdc"}, {"SOL", "Sol"}, {"USDT"}, {"TRX"}, {"eth"}} :
        s1 \in letters /\ s2 \in letters

Stable == {"USD", "usd", "USDT", "USDC", "usdc"}

Answered == cvStage \in {"answered", "back"}

\* C24: convert does not depend on the letter case of its symbols, returns
\* the amount itself between USD, USDT and USDC, and returns a finite number
\* above 0 for a positive amount at positive rates.
C24_CaseAndStable ==
    Answered =>
        /\ \A f, t \in Spellings :
               (SameSymbol(f, cvCall.fromSymbol) /\ SameSymbol(t, cvCall.toSymbol)) =>
                   cvResult = convertNumber(cvCall.amount, f, t, cvRates)
        /\ (cvCall.fromSymbol \in Stable /\ cvCall.toSymbol \in Stable) =>
               cvResult = cvCall.amount
        /\ cvResult.m > 0

\* convert(100, 'USD', 'Sol') has returned.
C24_Witness ==
    /\ cvStage = "answered"
    /\ cvCall = [amount |-> Number(100), fromSymbol |-> "USD", toSymbol |-> "Sol"]
    /\ cvResult = Over(Number(100), cvRates.SOL)

\* C25: at fixed rates, converting the result back gives the amount again.
C25_RoundTrip == cvStage = "back" => cvBack = cvCall.amount


-----------------------------------------------------------------------------
(* Specification of the TON authentication *)

InitAuth ==
    InitDepositVars /\ IdleWithdrawVars /\ IdleScanVars /\ IdleOracleVars /\ IdleBlockVars /\ IdleTronVars /\ IdleCanVars /\ IdleConvertVars /\ IdleAuthVars /\ IdleKeyVars /\ IdlePayeeVars /\ IdleNetworkVars /\ IdleWindowVars

NextAuth ==
    \/ tick
    \/ \E c \in Challenges : getChallenge(c)
    \/ \E v \in Verifies : \E c \in Challenges : \E sig \in Signatures : verifyLookup(v, c, sig)
    \/ \E v \in Verifies : verifySignature(v)
    \/ \E v \in Verifies : verifyNoKey(v)

SpecAuth == InitAuth /\ [][NextAuth]_vars

\* C26: a challenge leads to at most one issued JWT, also when two requests
\* carry it at the same time, and no JWT is issued for a challenge older
\* than 2 minutes.
C26_ChallengeUsedOnce ==
    /\ \A c \in Challenges :
           Cardinality({t \in DOMAIN tokens : tokens[t].challenge = c}) <= 1
    /\ \A t \in DOMAIN tokens : tokens[t].age <= CHALLENGE_EXPIRY

\* C27: a JWT is issued only for a signature that verifies as an Ed25519
\* signature of the signing hash under the key of the claimed address; every
\* other request is answered 400.
C27_OnlyVerifiedSignatures ==
    /\ \A t \in DOMAIN tokens : verifyTonSignature(tokens[t].signature)
    /\ \A v \in Verifies :
           (vpc[v] \in {"200", "400"} /\ ~verifyTonSignature(vreq[v].signature)) => vpc[v] = "400"

-----------------------------------------------------------------------------
(* Specification of the shared TronWeb instance *)

InitKey ==
    InitDepositVars /\ IdleWithdrawVars /\ IdleScanVars /\ IdleOracleVars /\ IdleBlockVars /\ IdleTronVars /\ IdleCanVars /\ IdleConvertVars /\ IdleAuthVars /\ IdleKeyVars /\ IdlePayeeVars /\ IdleNetworkVars /\ IdleWindowVars

NextKey ==
    \/ \E k \in KeyCalls : withdrawTrxSigns(k)
    \/ \E k \in KeyCalls : withdrawTokenTronSetsKey(k)
    \/ \E k \in KeyCalls : withdrawTokenTronSigns(k)
    \/ \E k \in KeyCalls : tronWithdrawalEnds(k)
    \/ maybeSweepUserDeposit
    \/ maybeSweepSignsTopUp
    \/ maybeSweepSetsKey
    \/ maybeSweepSigns
    \/ maybeSweepEnds

SpecKey == InitKey /\ [][NextKey]_vars

\* C33: every transfer of withdrawTokenTron / withdrawTrx and every gas top-up
\* is signed with the key of the main pool, and every USDT sweep transfer with
\* the key of the deposit address, under any interleaving of the withdrawals
\* with the sweep loop.
C33_SignedWithOwnKey ==
    \A s \in signatures : s.key = IF s.tx = "sweep" THEN "deposit" ELSE "pool"

-----------------------------------------------------------------------------
(* Specification of the scan of transactions with several payees *)

InitPayee ==
    /\ InitDepositVars /\ IdleWithdrawVars /\ IdleScanVars /\ IdleOracleVars /\ IdleBlockVars
    /\ IdleTronVars /\ IdleCanVars /\ IdleConvertVars /\ IdleAuthVars /\ IdleKeyVars
    /\ IdleNetworkVars /\ IdleWindowVars
    /\ \E pay \in [PayeeTxs -> SUBSET PayeeUsers] : PayeeVarsAtStart(pay)

NextPayee ==
    \/ pollForDepositsUsers
    \/ processSolanaTransaction
    \/ processSolanaTransactionExists
    \/ processSolanaTransactionCreate
    \/ processSolanaTransactionStatus
    \/ processSolanaTransactionCredit

SpecPayee == InitPayee /\ [][NextPayee]_vars

\* C34: every positive transfer to a monitored address is credited to the user
\* of that address: when a poll cycle has ended, every user a transaction pays
\* has a Deposit Record and a credit for it, also when the transaction pays
\* two monitored addresses.
C34_EveryPayeeCredited ==
    ppc.st = "done" =>
        \A t \in PayeeTxs : \A u \in payees[t] :
            Pair(t, u) \in depositRows /\ Pair(t, u) \in credited

-----------------------------------------------------------------------------
(* Specification of the scan window of the Ethereum listener *)

InitWindow ==
    /\ InitDepositVars /\ IdleWithdrawVars /\ IdleScanVars /\ IdleOracleVars /\ IdleBlockVars
    /\ IdleTronVars /\ IdleCanVars /\ IdleConvertVars /\ IdleAuthVars /\ IdleKeyVars
    /\ IdlePayeeVars /\ IdleNetworkVars
    /\ \E blockOf \in [EthTxs -> 1..MaxEthHead] : WindowVarsAtStart(blockOf)

CycleStep ==
    \/ monitorEthereumAddress
    \/ monitorEthereumAddressCurrent
    \/ getRecentTransactions
    \/ \E x \in EthTxs : processDepositEth(x)
    \/ monitorEthereumAddressEnds

NextWindow ==
    \/ ethNewBlock
    \/ CycleStep
    \/ \E x \in EthTxs : processDepositEthFails(x)

SpecWindow == InitWindow /\ [][NextWindow]_vars

\* The timer keeps firing and every awaited call of a cycle answers.
FairSpecWindow == SpecWindow /\ WF_vars(CycleStep)

\* C39: the scan window makes progress: every block below the head of the
\* chain is covered by the request of some poll cycle, and a transfer to the
\* address in such a block is recorded by some cycle, also when it sits in the
\* block of an already recorded deposit.
C39_WindowProgress ==
    /\ \A b \in 1..MaxEthHead : (ethHead > b) ~> (b \in scannedBlocks)
    /\ \A x \in EthTxs : (ethHead > ethTxBlock[x]) ~> (x \in ethRecorded)
====
